---- MODULE Spec2Model ----
(***************************************************************************)
(* Model of the UK-reporting-ETFs pipeline (bin/ scripts):                 *)
(*   _cusip_isin.py       check digits of CUSIPs and ISINs                 *)
(*   filter-hmrc-sheet.py the candidate filter sheet_to_fund_info          *)
(*   call-openfigi.py     the query planner and the batched remote caller  *)
(*                                                                         *)
(* A Python str is a sequence of one-character strings; Python's None is   *)
(* the value None below, which is no str the program can hold because its  *)
(* single element is not one character.  A dict is a function; a variable   *)
(* that holds a dict or None holds NoResult for None.                      *)
(***************************************************************************)
EXTENDS Integers, Sequences, FiniteSets, TLC

VARIABLES
    s, out, op,                 \* checksum engine: argument, result, function applied
    errata, row, fund, yielded, \* sheet_to_fund_info: errata dict, record read, record after the loop body, was it yielded
    rows_read, fund_count,      \* sheet_to_fund_info: loop position and fund_count
    merged,                     \* sheet_to_fund_info: the record after the errata override
    job_response, best_result,  \* get_best_openfigi_result: argument and return value
    best_pc,                    \* get_best_openfigi_result: "called" or "returned"
    funds, jobs_per_call,       \* get_openfigi_results: its arguments
    cache,                      \* get_openfigi_results: the dict cache
    queried_isin_cusips,        \* get_openfigi_results: the set of that name
    queried_cusips,             \* get_openfigi_results: the set of that name
    stage, pc,                  \* which of the four stages runs, and where the run is
    ids_to_query,               \* call_openfigi_stage: its first argument
    calls,                      \* call_openfigi_stage: the batches posted so far
    openfigi_results,           \* call_openfigi_stage: the best results consumed so far
    openfigi_results_grouped,   \* call_openfigi_stage: the responses to the calls so far
    stage_result,               \* the dict the last call_openfigi_stage returned
    cache0, plan_log, writes,   \* history: the cache as loaded, the identifiers the
                                \* planner yielded, the number of writes of each key
    output_file,                \* call-openfigi.py: the file args.output
    args_cache,                 \* call-openfigi.py: args.cache
    run,                        \* the first or the second invocation of call-openfigi.py
    status_codes,               \* call_openfigi: connection.code of the calls of this run
    filelike,                   \* read_fundinfo_csv: the rows of the file read
    need_all_columns,           \* read_fundinfo_csv: the argument of that name
    columns,                    \* read_fundinfo_csv: ref_column .. figi_column
    rows_consumed,              \* read_fundinfo_csv: rows taken from csv_in so far
    fundinfos,                  \* read_fundinfo_csv: the records yielded so far
    reader_pc,                  \* read_fundinfo_csv: iterating, raised or exhausted
    errata_filelikes,           \* merge_errata: the records of each errata file
    errata_read,                \* merge_errata: records consumed so far
    merge_pc,                   \* merge_errata: merging or returned
    fund_info,                  \* generate-wikitext.py: the candidates given to enhance_fund_data
    cusip_to_tickerinfo,        \* enhance_fund_data: the argument of that name
    fund_families,              \* enhance_fund_data: the argument of that name
    fund_categories,            \* enhance_fund_data: the argument of that name
    no_die_on_uncategorized_funds, \* enhance_fund_data: the argument of that name
    funds_enhanced,             \* enhance_fund_data: iterations of the loop so far
    enhanced,                   \* enhance_fund_data: the list result
    seen_cusips,                \* enhance_fund_data: the set of that name
    uncategorized_funds,        \* enhance_fund_data: the list of that name
    names_cleaned,              \* history: fund_name before and after line 117
    enhance_pc,                 \* enhance_fund_data: in the loop, exited or returned
    candidates_file,            \* filter-hmrc-sheet.py: the file args.output, input of the later scripts
    calls_per_minute,           \* call_openfigi_stage: the argument of that name
    now,                        \* time.time(), in units of 1/19 second
    last_time,                  \* rate_limit: the local of that name; 0 stands for None
    dispatch_times,             \* history: the time at which rate_limit yielded each batch
    sleeps,                     \* history: the calls of time.sleep, each with the batch it preceded
    rate_pc                     \* rate_limit: between items, or suspended at its yield

checksumVars == <<s, out, op>>
filterVars == <<errata, row, fund, yielded, rows_read, fund_count, merged>>
bestVars == <<job_response, best_result, best_pc>>
plannerVars == <<funds, jobs_per_call, cache, queried_isin_cusips, queried_cusips,
                 stage, pc, ids_to_query, calls, openfigi_results,
                 openfigi_results_grouped, stage_result,
                 cache0, plan_log, writes>>
mainVars == <<output_file, args_cache, run, status_codes>>
readerVars == <<filelike, need_all_columns, columns, rows_consumed, fundinfos, reader_pc>>
mergeVars == <<errata_filelikes, errata_read, merge_pc>>
enhanceVars == <<fund_info, cusip_to_tickerinfo, fund_families, fund_categories, no_die_on_uncategorized_funds, funds_enhanced, enhanced, seen_cusips, uncategorized_funds, names_cleaned, enhance_pc>>
pipelineVars == <<candidates_file>>
rateVars == <<calls_per_minute, now, last_time, dispatch_times, sleeps, rate_pc>>
vars == <<s, out, op, errata, row, fund, yielded, rows_read, fund_count, merged,
          job_response, best_result, best_pc,
          funds, jobs_per_call, cache, queried_isin_cusips, queried_cusips,
          stage, pc, ids_to_query, calls, openfigi_results, openfigi_results_grouped,
          stage_result,
          cache0, plan_log, writes,
          output_file, args_cache, run, status_codes,
          filelike, need_all_columns, columns, rows_consumed, fundinfos, reader_pc,
          errata_filelikes, errata_read, merge_pc,
          fund_info, cusip_to_tickerinfo, fund_families, fund_categories, no_die_on_uncategorized_funds, funds_enhanced, enhanced, seen_cusips, uncategorized_funds, names_cleaned, enhance_pc,
          candidates_file,
          calls_per_minute, now, last_time, dispatch_times, sleeps, rate_pc>>

None == <<"None">>
NoResult == [none |-> TRUE]
\* a path at which no file exists
NoFile == [exists |-> FALSE, rows |-> <<>>]

(***************************************************************************)
(* Characters                                                              *)
(***************************************************************************)
DigitChars == <<"0", "1", "2", "3", "4", "5", "6", "7", "8", "9">>
UpperChars == <<"A", "B", "C", "D", "E", "F", "G", "H", "I", "J", "K", "L", "M",
                "N", "O", "P", "Q", "R", "S", "T", "U", "V", "W", "X", "Y", "Z">>
LowerChars == <<"a", "b", "c", "d", "e", "f", "g", "h", "i", "j", "k", "l", "m",
                "n", "o", "p", "q", "r", "s", "t", "u", "v", "w", "x", "y", "z">>

Range(f) == {f[i] : i \in DOMAIN f}
DigitSet == Range(DigitChars)
UpperSet == Range(UpperChars)
LowerSet == Range(LowerChars)
IsDigit(c) == c \in DigitSet
IsUpper(c) == c \in UpperSet
IsLower(c) == c \in LowerSet
Alnum == DigitSet \cup UpperSet

\* int(c) of a decimal digit character
int(c) == (CHOOSE i \in DOMAIN DigitChars : DigitChars[i] = c) - 1
\* ord(c) of an upper-case ASCII letter
ord(c) == (CHOOSE i \in DOMAIN UpperChars : UpperChars[i] = c) + 64
\* str(n) of a natural number
RECURSIVE str(_)
str(n) == IF n < 10 THEN <<DigitChars[n + 1]>>
          ELSE str(n \div 10) \o <<DigitChars[(n % 10) + 1]>>

RECURSIVE SumSeq(_)
SumSeq(q) == IF q = <<>> THEN 0 ELSE Head(q) + SumSeq(Tail(q))

RECURSIVE Flatten(_)
Flatten(q) == IF q = <<>> THEN <<>> ELSE Head(q) \o Flatten(Tail(q))

\* ''.join(c for i, c in enumerate(q) if i % 2 == r)   (i is 0-indexed)
RECURSIVE AtParity(_, _)
AtParity(q, r) ==
    IF q = <<>> THEN <<>>
    ELSE (IF r = 0 THEN <<Head(q)>> ELSE <<>>) \o AtParity(Tail(q), 1 - r)

\* the characters of the model in the order of their code points
AsciiChars == <<" ", "-", "/">> \o DigitChars \o UpperChars \o LowerChars
CodeRank(c) == CHOOSE i \in DOMAIN AsciiChars : AsciiChars[i] = c
\* a < b of two str
LessStr(a, b) ==
    LET n == IF Len(a) < Len(b) THEN Len(a) ELSE Len(b)
        d == {i \in 1..n : a[i] # b[i]}
    IN  IF d = {} THEN Len(a) < Len(b)
        ELSE LET i == CHOOSE j \in d : \A k \in d : j <= k
             IN  CodeRank(a[i]) < CodeRank(b[i])

\* the strings of the set S in ascending order
RECURSIVE SortedStrings(_)
SortedStrings(S) ==
    IF S = {} THEN <<>>
    ELSE LET m == CHOOSE x \in S : \A y \in S \ {x} : LessStr(x, y)
         IN  <<m>> \o SortedStrings(S \ {m})

(***************************************************************************)
(* _cusip_isin.py                                                          *)
(***************************************************************************)
cusip_char_value(c, is_odd) ==
    CASE c = "0" -> 0
      [] c \in {"J", "S"} -> IF is_odd THEN 0 ELSE 1
      [] c \in {"1", "A"} -> IF is_odd THEN 1 ELSE 2
      [] c = "T" -> IF is_odd THEN 1 ELSE 3
      [] c \in {"2", "B", "K"} -> IF is_odd THEN 2 ELSE 4
      [] c \in {"3", "C", "L", "U"} -> IF is_odd THEN 3 ELSE 6
      [] c \in {"4", "D", "M", "V"} -> IF is_odd THEN 4 ELSE 8
      [] c \in {"E", "N", "W"} -> IF is_odd THEN 5 ELSE 0
      [] c = "5" -> IF is_odd THEN 5 ELSE 1
      [] c \in {"O", "X"} -> IF is_odd THEN 6 ELSE 2
      [] c \in {"6", "F"} -> IF is_odd THEN 6 ELSE 3
      [] c = "Y" -> IF is_odd THEN 7 ELSE 4
      [] c \in {"7", "G", "P"} -> IF is_odd THEN 7 ELSE 5
      [] c \in {"8", "H", "Q", "Z"} -> IF is_odd THEN 8 ELSE 7
      [] c \in {"9", "I", "R"} -> 9

\* cusip_check_digit with the parity test of the position inverted
cusip_check_digit_parity(q) ==
    LET x == SumSeq([i \in 1..Len(q) |-> cusip_char_value(q[i], (i - 1) % 2 = 1)])
    IN  str((10 - (x % 10)) % 10)

cusip_check_digit(q) ==
    LET x == SumSeq([i \in 1..Len(q) |-> cusip_char_value(q[i], (i - 1) % 2 = 0)])
    IN  str((10 - (x % 10)) % 10)

\* re.sub('[A-Z]', lambda m: str(ord(m.group(0)) - 55), q)
ExpandLetters(q) ==
    Flatten([i \in 1..Len(q) |-> IF IsUpper(q[i]) THEN str(ord(q[i]) - 55) ELSE <<q[i]>>])

\* re.sub(r'\d', lambda m: str(int(m.group(0)) * 2), q)
DoubleDigits(q) ==
    Flatten([i \in 1..Len(q) |-> IF IsDigit(q[i]) THEN str(int(q[i]) * 2) ELSE <<q[i]>>])

\* isin_check_digit that doubles the odd-indexed half whatever the two lengths
isin_check_digit_fixed_half(q) ==
    LET e == ExpandLetters(q)
        odds == AtParity(e, 0)
        evens == DoubleDigits(AtParity(e, 1))
        all == evens \o odds
        x == SumSeq([i \in 1..Len(all) |-> int(all[i])])
    IN  str((10 - (x % 10)) % 10)

\* isin_check_digit that splits the eleven characters by the parity of their
\* position before the letters are expanded, and doubles the half of the
\* characters at positions 0, 2, ... unless the two halves are equally long
isin_check_digit_split_before_expansion(q) ==
    LET odds0 == ExpandLetters(AtParity(q, 0))
        evens0 == ExpandLetters(AtParity(q, 1))
        equal == Len(AtParity(q, 1)) = Len(AtParity(q, 0))
        evens == IF equal THEN DoubleDigits(evens0) ELSE evens0
        odds == IF equal THEN odds0 ELSE DoubleDigits(odds0)
        all == evens \o odds
        x == SumSeq([i \in 1..Len(all) |-> int(all[i])])
    IN  str((10 - (x % 10)) % 10)

isin_check_digit(q) ==
    LET e == ExpandLetters(q)
        odds0 == AtParity(e, 0)
        evens0 == AtParity(e, 1)
        evens == IF Len(evens0) = Len(odds0) THEN DoubleDigits(evens0) ELSE evens0
        odds == IF Len(evens0) = Len(odds0) THEN odds0 ELSE DoubleDigits(odds0)
        all == evens \o odds
        x == SumSeq([i \in 1..Len(all) |-> int(all[i])])
    IN  str((10 - (x % 10)) % 10)

US == <<"U", "S">>

make_isin_from_cusip(cusip) == US \o cusip \o isin_check_digit(US \o cusip)

(***************************************************************************)
(* Checksum engine: the three functions applied to bounded inputs          *)
(***************************************************************************)
AAPL_CUSIP8 == <<"0", "3", "7", "8", "3", "3", "1", "0">>
AAPL_CUSIP == AAPL_CUSIP8 \o <<"0">>
AAPL_ISIN == US \o AAPL_CUSIP \o <<"5">>

\* base with the characters at positions p and p + 1 replaced by c and d
Vary2(base, p, c, d) == [base EXCEPT ![p] = c, ![p + 1] = d]

CusipInputs == {Vary2(AAPL_CUSIP8, p, c, d) : p \in 1..7, c \in Alnum, d \in Alnum}
IsinInputs == {US \o Vary2(AAPL_CUSIP, p, c, d) : p \in 1..8, c \in Alnum, d \in Alnum}
Cusip9Inputs == {[AAPL_CUSIP EXCEPT ![p] = c] : p \in 1..9, c \in Alnum}

InitChecksum ==
    /\ s \in CusipInputs \cup IsinInputs \cup Cusip9Inputs
    /\ out = None
    /\ op = "none"

CusipCheckDigit ==
    /\ op = "none"
    /\ Len(s) = 8
    /\ out' = cusip_check_digit(s)
    /\ op' = "cusip_check_digit"
    /\ UNCHANGED <<readerVars, mergeVars, enhanceVars, pipelineVars, rateVars>>
    /\ UNCHANGED <<s, filterVars, bestVars, plannerVars, mainVars>>

IsinCheckDigit ==
    /\ op = "none"
    /\ Len(s) = 11
    /\ out' = isin_check_digit(s)
    /\ op' = "isin_check_digit"
    /\ UNCHANGED <<readerVars, mergeVars, enhanceVars, pipelineVars, rateVars>>
    /\ UNCHANGED <<s, filterVars, bestVars, plannerVars, mainVars>>

MakeIsinFromCusip ==
    /\ op = "none"
    /\ Len(s) = 9
    /\ out' = make_isin_from_cusip(s)
    /\ op' = "make_isin_from_cusip"
    /\ UNCHANGED <<readerVars, mergeVars, enhanceVars, pipelineVars, rateVars>>
    /\ UNCHANGED <<s, filterVars, bestVars, plannerVars, mainVars>>

(***************************************************************************)
(* filter-hmrc-sheet.py                                                    *)
(***************************************************************************)
\* Python truthiness of an optional str: neither None nor ''
Truthy(x) == x # None /\ x # <<>>

Whitespace == {" "}

RECURSIVE lstrip(_)
lstrip(x) == IF x # <<>> /\ Head(x) \in Whitespace THEN lstrip(Tail(x)) ELSE x

RECURSIVE rstrip(_)
rstrip(x) == IF x # <<>> /\ x[Len(x)] \in Whitespace THEN rstrip(SubSeq(x, 1, Len(x) - 1)) ELSE x

strip(x) == rstrip(lstrip(x))

upper(x) ==
    [i \in 1..Len(x) |->
        IF IsLower(x[i])
        THEN UpperChars[CHOOSE k \in DOMAIN LowerChars : LowerChars[k] = x[i]]
        ELSE x[i]]

startswith(x, prefix) ==
    Len(x) >= Len(prefix) /\ SubSeq(x, 1, Len(prefix)) = prefix

\* _REGEXP_NOT_ALNUM.sub('', x)
REGEXP_NOT_ALNUM_sub(x) == SelectSeq(x, LAMBDA c : c \in Alnum)

\* _REGEXP_DATE_DDMMYYYY.match(x): the pattern is anchored at the start only
REGEXP_DATE_DDMMYYYY_match(x) ==
    /\ Len(x) >= 10
    /\ \/ x[1] = "0" /\ x[2] \in {"1", "2", "3", "4", "5", "6", "7", "8", "9"}
       \/ x[1] \in {"1", "2"} /\ IsDigit(x[2])
       \/ x[1] = "3" /\ x[2] \in {"0", "1"}
    /\ x[3] = "/"
    /\ \/ x[4] = "0" /\ x[5] \in {"1", "2", "3", "4", "5", "6", "7", "8", "9"}
       \/ x[4] = "1" /\ x[5] \in {"0", "1", "2"}
    /\ x[6] = "/"
    /\ \A i \in 7..10 : IsDigit(x[i])

\* merge_fundinfos that copies every field of src, blank or not
merge_fundinfos_all_fields(dest, src) ==
    [dest EXCEPT
        !.family = src.family, !.fund_name = src.fund_name, !.isin = src.isin,
        !.cusip = src.cusip, !.from_date = src.from_date, !.to_date = src.to_date]

merge_fundinfos(dest, src) ==
    [dest EXCEPT
        !.family = IF Truthy(src.family) THEN src.family ELSE @,
        !.fund_name = IF Truthy(src.fund_name) THEN src.fund_name ELSE @,
        !.isin = IF Truthy(src.isin) THEN src.isin ELSE @,
        !.cusip = IF Truthy(src.cusip) THEN src.cusip ELSE @,
        !.from_date = IF Truthy(src.from_date) THEN src.from_date ELSE @,
        !.to_date = IF Truthy(src.to_date) THEN src.to_date ELSE @]

\* lines 25-30: the errata override of one record
ApplyErrata(f, err) ==
    IF f.share_class_ref \in DOMAIN err THEN merge_fundinfos(f, err[f.share_class_ref]) ELSE f

\* CleanCusip that trusts a nine-character value without comparing its check digit
CleanCusipUnchecked(cusip) ==
    IF cusip = None THEN None
    ELSE LET c == REGEXP_NOT_ALNUM_sub(upper(strip(cusip)))
         IN  IF c = <<>> THEN c
             ELSE IF Len(c) = 8 THEN c \o cusip_check_digit(c)
             ELSE IF Len(c) # 9 THEN None
             ELSE c

\* CleanCusip that keeps an eight-character value as it is
CleanCusipNoRepair(cusip) ==
    IF cusip = None THEN None
    ELSE LET c == REGEXP_NOT_ALNUM_sub(upper(strip(cusip)))
         IN  IF c = <<>> THEN c
             ELSE IF Len(c) = 8 THEN c
             ELSE IF Len(c) # 9 THEN None
             ELSE IF cusip_check_digit(SubSeq(c, 1, 8)) # SubSeq(c, 9, 9) THEN None
             ELSE c

\* lines 32-43: the cusip of a record after clean-up
CleanCusip(cusip) ==
    IF cusip = None THEN None
    ELSE LET c == REGEXP_NOT_ALNUM_sub(upper(strip(cusip)))
         IN  IF c = <<>> THEN c
             ELSE IF Len(c) = 8 THEN c \o cusip_check_digit(c)
             ELSE IF Len(c) # 9 THEN None
             ELSE IF cusip_check_digit(SubSeq(c, 1, 8)) # SubSeq(c, 9, 9) THEN None
             ELSE c

\* CleanIsin that discards a non-US ISIN and keeps the record
CleanIsinKeepForeign(isin) ==
    IF isin = None THEN [skip |-> FALSE, isin |-> None]
    ELSE LET c == REGEXP_NOT_ALNUM_sub(upper(strip(isin)))
         IN  IF c = <<>> THEN [skip |-> FALSE, isin |-> c]
             ELSE IF ~startswith(c, US) THEN [skip |-> FALSE, isin |-> None]
             ELSE IF Len(c) = 11 THEN [skip |-> FALSE, isin |-> c \o isin_check_digit(c)]
             ELSE IF Len(c) # 12 THEN [skip |-> FALSE, isin |-> None]
             ELSE IF isin_check_digit(SubSeq(c, 1, 11)) # SubSeq(c, 12, 12)
                  THEN [skip |-> FALSE, isin |-> None]
             ELSE [skip |-> FALSE, isin |-> c]

\* lines 44-58: the isin of a record after clean-up; skip is the `continue`
\* taken for a non-US ISIN
CleanIsin(isin) ==
    IF isin = None THEN [skip |-> FALSE, isin |-> None]
    ELSE LET c == REGEXP_NOT_ALNUM_sub(upper(strip(isin)))
         IN  IF c = <<>> THEN [skip |-> FALSE, isin |-> c]
             ELSE IF ~startswith(c, US) THEN [skip |-> TRUE, isin |-> c]
             ELSE IF Len(c) = 11 THEN [skip |-> FALSE, isin |-> c \o isin_check_digit(c)]
             ELSE IF Len(c) # 12 THEN [skip |-> FALSE, isin |-> None]
             ELSE IF isin_check_digit(SubSeq(c, 1, 11)) # SubSeq(c, 12, 12)
                  THEN [skip |-> FALSE, isin |-> None]
             ELSE [skip |-> FALSE, isin |-> c]

\* CleanDate with fullmatch in the place of match
CleanDateExact(d) ==
    IF d # None /\ ~(REGEXP_DATE_DDMMYYYY_match(strip(d)) /\ Len(strip(d)) = 10) THEN None ELSE d

\* lines 62-65: a date that does not match the pattern becomes None
CleanDate(d) ==
    IF d # None /\ ~REGEXP_DATE_DDMMYYYY_match(strip(d)) THEN None ELSE d

\* LoopBody without the test of to_date
LoopBodyNoCeasedTest(r, err) ==
    LET f1 == ApplyErrata(r, err)
        f2 == [f1 EXCEPT !.cusip = CleanCusip(f1.cusip)]
        ci == CleanIsin(f2.isin)
        f3 == [f2 EXCEPT !.isin = ci.isin]
        f4 == [f3 EXCEPT !.from_date = CleanDate(f3.from_date),
                         !.to_date = CleanDate(f3.to_date)]
    IN  IF ci.skip THEN [fund |-> f3, yielded |-> FALSE]
        ELSE IF ~Truthy(f3.isin) /\ ~Truthy(f3.cusip) THEN [fund |-> f3, yielded |-> FALSE]
        ELSE [fund |-> f4, yielded |-> TRUE]

\* lines 23-69: one iteration of the loop of sheet_to_fund_info on the record
\* r read from the sheet; fund is the record when the iteration ends, yielded
\* tells whether it ended at `yield fund` or at a `continue`
LoopBody(r, err) ==
    LET f1 == ApplyErrata(r, err)
        f2 == [f1 EXCEPT !.cusip = CleanCusip(f1.cusip)]
        ci == CleanIsin(f2.isin)
        f3 == [f2 EXCEPT !.isin = ci.isin]
        f4 == [f3 EXCEPT !.from_date = CleanDate(f3.from_date),
                         !.to_date = CleanDate(f3.to_date)]
    IN  IF ci.skip THEN [fund |-> f3, yielded |-> FALSE]
        ELSE IF ~Truthy(f3.isin) /\ ~Truthy(f3.cusip) THEN [fund |-> f3, yielded |-> FALSE]
        ELSE IF Truthy(f4.to_date) THEN [fund |-> f4, yielded |-> FALSE]
        ELSE [fund |-> f4, yielded |-> TRUE]

(***************************************************************************)
(* Candidate filter: records fed to sheet_to_fund_info                     *)
(***************************************************************************)
MaxRows == 2

R1 == <<"R", "1">>
R2 == <<"R", "2">>
Family == <<"O", "l", "d">>
FundName == <<"F", "u", "n", "d">>
GOOG_CUSIP == <<"3", "8", "2", "5", "9", "P", "5", "0", "8">>
GB_ISIN == <<"G", "B", "0", "0", "0", "2", "6", "3", "4", "9", "4", "6">>
DATE_2015 == <<"0", "1", "/", "0", "1", "/", "2", "0", "1", "5">>
DATE_2019 == <<"3", "1", "/", "1", "2", "/", "2", "0", "1", "9">>

\* cells of the CUSIP column: absent, empty, without check digit, valid, wrong
\* check digit, too long, lower case with punctuation, punctuation only
RawCusips == {None, <<>>, AAPL_CUSIP8, AAPL_CUSIP, <<"0", "3", "7", "8", "3", "3", "1", "0", "9">>, <<"0", "3", "7", "8", "3", "3", "1", "0", "0", "5">>,
              <<" ", "3", "8", "2", "5", "9", "p", "-", "5", "0">>, <<"-", "-">>}
\* cells of the ISIN column: absent, empty, without check digit, valid, wrong
\* check digit, too short, foreign, foreign and short, lower case with
\* punctuation, punctuation only
RawIsins == {None, <<>>, US \o AAPL_CUSIP, AAPL_ISIN, <<"U", "S", "0", "3", "7", "8", "3", "3", "1", "0", "0", "9">>, <<"U", "S", "0", "3", "7", "8", "3", "3", "1", "0">>,
             GB_ISIN, <<"G", "B">>, <<" ", "u", "s", "-", "0", "3", "7", "8", "3", "3", "1", "0", "0", "5", " ">>, <<"-">>}
\* cells of a date column: absent, empty, a date, a date in blanks, a day that
\* does not exist, one-digit day and month, a date followed by text, ISO order
RawDates == {None, <<>>, DATE_2019, <<" ", "3", "1", "/", "1", "2", "/", "2", "0", "1", "9", " ">>, <<"3", "1", "/", "0", "2", "/", "2", "0", "1", "9">>, <<"1", "/", "1", "/", "2", "0", "1", "9">>, <<"3", "1", "/", "1", "2", "/", "2", "0", "1", "9", "x">>, <<"2", "0", "1", "9", "-", "1", "2", "-", "3", "1">>}

FundInfo(ref, isin, cusip, from_date, to_date) ==
    [share_class_ref |-> ref, family |-> Family, fund_name |-> FundName,
     isin |-> isin, cusip |-> cusip, from_date |-> from_date, to_date |-> to_date]

Erratum(family, isin, cusip, to_date) ==
    [share_class_ref |-> R1, family |-> family, fund_name |-> <<>>,
     isin |-> isin, cusip |-> cusip, from_date |-> None, to_date |-> to_date]

\* the dict built by merge_errata: none, a cessation date, a foreign ISIN, a
\* CUSIP with a malformed date
ErrataChoices ==
    { <<>>,
      [r \in {R1} |-> Erratum(<<>>, None, <<>>, DATE_2019)],
      [r \in {R1} |-> Erratum(None, GB_ISIN, <<>>, <<>>)],
      [r \in {R1} |-> Erratum(<<"N", "e", "w">>, <<>>, AAPL_CUSIP8, <<"1", "/", "1", "/", "2", "0", "1", "9">>)] }

\* every pair of identifier cells on a live record; every cessation date on
\* three pairs of identifiers, with and without an erratum; every pair of dates
Rows ==
    {FundInfo(R1, i, c, DATE_2015, <<>>) : i \in RawIsins, c \in RawCusips}
    \cup
    {FundInfo(ref, ic[1], ic[2], DATE_2015, td) :
        ref \in {R1, R2},
        ic \in {<<AAPL_ISIN, <<>>>>, <<None, GOOG_CUSIP>>, <<GB_ISIN, AAPL_CUSIP>>},
        td \in RawDates}
    \cup
    {FundInfo(R2, AAPL_ISIN, <<>>, fd, td) :
        fd \in {None, <<"1", "/", "1", "/", "2", "0", "1", "9">>,
                <<"3", "1", "/", "1", "2", "/", "2", "0", "1", "9", "x">>},
        td \in RawDates}

InitFilter ==
    /\ errata \in ErrataChoices
    /\ row = FundInfo(None, None, None, None, None)
    /\ fund = FundInfo(None, None, None, None, None)
    /\ merged = FundInfo(None, None, None, None, None)
    /\ yielded = FALSE
    /\ rows_read = 0
    /\ fund_count = 0

\* one iteration of `for fund in read_fundinfo_csv(...)`, on the record r
FilterRecord(r) ==
    /\ merge_pc # "merging"
    /\ rows_read < MaxRows
    /\ \E res \in {LoopBody(r, errata)} :
            /\ row' = r
            /\ merged' = ApplyErrata(r, errata)
            /\ fund' = res.fund
            /\ yielded' = res.yielded
            /\ fund_count' = IF res.yielded THEN fund_count + 1 ELSE fund_count
    /\ rows_read' = rows_read + 1
    /\ UNCHANGED <<readerVars, mergeVars, enhanceVars, rateVars>>
    /\ UNCHANGED <<errata, checksumVars, bestVars, plannerVars, mainVars>>

FilterRow == \E r \in Rows : FilterRecord(r) /\ UNCHANGED candidates_file

(***************************************************************************)
(* filter-hmrc-sheet.py: merge_errata, one record of the errata files at a *)
(* time, and then the loop of sheet_to_fund_info on the dict it returns    *)
(***************************************************************************)
MaxErrata == 2

\* records of the errata files, read with need_all_columns=False: a cell is
\* None where the file has no such column and empty where it is left blank
ErrataRecords ==
    { [share_class_ref |-> R1, family |-> <<"N", "e", "w">>, fund_name |-> <<>>, isin |-> GB_ISIN,
       cusip |-> None, from_date |-> <<>>, to_date |-> DATE_2019],
      [share_class_ref |-> R1, family |-> <<"N", "e", "w", "e", "r">>, fund_name |-> <<"S", "u", "b">>, isin |-> <<>>,
       cusip |-> AAPL_CUSIP8, from_date |-> None, to_date |-> <<>>],
      [share_class_ref |-> R1, family |-> <<>>, fund_name |-> <<>>, isin |-> <<>>,
       cusip |-> <<>>, from_date |-> <<>>, to_date |-> <<>>],
      [share_class_ref |-> R1, family |-> None, fund_name |-> None, isin |-> AAPL_ISIN,
       cusip |-> GOOG_CUSIP, from_date |-> DATE_2019, to_date |-> None],
      [share_class_ref |-> R2, family |-> <<"N", "e", "w">>, fund_name |-> <<"S", "u", "b">>, isin |-> GB_ISIN,
       cusip |-> AAPL_CUSIP, from_date |-> DATE_2019, to_date |-> DATE_2019] }

\* the errata files of the command line: one file, or two
ErrataFileLists ==
    UNION {{<<recs>>} \cup {<<SubSeq(recs, 1, k), SubSeq(recs, k + 1, Len(recs))>> : k \in 0..Len(recs)} :
            recs \in UNION {[1..n -> ErrataRecords] : n \in 0..MaxErrata}}

\* the records in the order the two loops of merge_errata read them
ErrataInOrder == Flatten(errata_filelikes)

InitMerge ==
    /\ errata_filelikes \in ErrataFileLists
    /\ errata_read = 0
    /\ merge_pc = "merging"
    /\ errata = <<>>
    /\ row = FundInfo(None, None, None, None, None)
    /\ fund = FundInfo(None, None, None, None, None)
    /\ merged = FundInfo(None, None, None, None, None)
    /\ yielded = FALSE
    /\ rows_read = 0
    /\ fund_count = 0

\* lines 93-97: one record of one errata file
MergeErratum ==
    /\ merge_pc = "merging"
    /\ errata_read < Len(ErrataInOrder)
    /\ LET fundinfo == ErrataInOrder[errata_read + 1]
           ref == fundinfo.share_class_ref
       IN  errata' =
               IF ref \notin DOMAIN errata
               THEN [r \in DOMAIN errata \cup {ref} |-> IF r = ref THEN fundinfo ELSE errata[r]]
               ELSE [errata EXCEPT ![ref] = merge_fundinfos(errata[ref], fundinfo)]
    /\ errata_read' = errata_read + 1
    /\ UNCHANGED <<errata_filelikes, merge_pc, row, fund, yielded, rows_read, fund_count, merged>>
    /\ UNCHANGED <<checksumVars, bestVars, plannerVars, mainVars, readerVars, enhanceVars, pipelineVars, rateVars>>

\* records of the sheet met after merge_errata: two with an erratum, one whose
\* erratum names foreign identifiers, one without erratum
R3 == <<"R", "3">>
ErrataSheetRows ==
    { FundInfo(R1, AAPL_ISIN, AAPL_CUSIP, DATE_2015, <<>>),
      FundInfo(R1, <<>>, GOOG_CUSIP, None, DATE_2019),
      FundInfo(R2, AAPL_ISIN, <<>>, DATE_2015, <<>>),
      FundInfo(R3, None, GOOG_CUSIP, DATE_2015, <<>>) }

\* lines 25-70: one iteration of the loop of sheet_to_fund_info
FilterErrataRow == \E r \in ErrataSheetRows : FilterRecord(r) /\ UNCHANGED candidates_file

\* line 99: the dict is returned and becomes the errata of sheet_to_fund_info
MergeErrataReturn ==
    /\ merge_pc = "merging"
    /\ errata_read = Len(ErrataInOrder)
    /\ merge_pc' = "returned"
    /\ UNCHANGED <<errata_filelikes, errata_read, filterVars>>
    /\ UNCHANGED <<checksumVars, bestVars, plannerVars, mainVars, readerVars, enhanceVars, pipelineVars, rateVars>>

(***************************************************************************)
(* call-openfigi.py: results of one job                                    *)
(***************************************************************************)
\* d.get(key, None)
Get(d, key) == IF key \in DOMAIN d THEN d[key] ELSE None

FALLBACK_EXCH_CODES == {<<"U", "A">>, <<"U", "N">>, <<"U", "P">>, <<"U", "R">>}

\* the loop of get_best_openfigi_result that lets a later fallback replace an
\* earlier one
RECURSIVE BestLoopLastFallback(_, _)
BestLoopLastFallback(all_results, best) ==
    IF all_results = <<>> THEN best
    ELSE LET result == Head(all_results)
             exch_code == Get(result, "exchCode")
         IN  IF exch_code = US THEN result
             ELSE IF exch_code \in FALLBACK_EXCH_CODES
                  THEN BestLoopLastFallback(Tail(all_results), result)
             ELSE BestLoopLastFallback(Tail(all_results), best)

\* lines 179-185: the loop over all_results, best being best_result so far
RECURSIVE BestLoop(_, _)
BestLoop(all_results, best) ==
    IF all_results = <<>> THEN best
    ELSE LET result == Head(all_results)
             exch_code == Get(result, "exchCode")
         IN  IF exch_code = US THEN result
             ELSE IF best = NoResult /\ exch_code \in FALLBACK_EXCH_CODES
                  THEN BestLoop(Tail(all_results), result)
             ELSE BestLoop(Tail(all_results), best)

get_best_openfigi_result(response) ==
    BestLoop(IF "data" \in DOMAIN response THEN response.data ELSE <<>>, NoResult)

openfigi_result_as_tickerinfo(cusip, openfigi_result) ==
    [cusip |-> cusip,
     ticker |-> IF openfigi_result # NoResult THEN Get(openfigi_result, "ticker") ELSE None,
     fund_name |-> IF openfigi_result # NoResult THEN Get(openfigi_result, "name") ELSE None,
     figi |-> IF openfigi_result # NoResult THEN Get(openfigi_result, "figi") ELSE None,
     exchange |-> IF openfigi_result # NoResult THEN Get(openfigi_result, "exchCode") ELSE None]

(***************************************************************************)
(* get_best_openfigi_result applied to bounded responses                   *)
(***************************************************************************)
MaxCandidates == 3

LN == <<"L", "N">>
\* exchCode of a candidate; None stands for a candidate without the key
ExchCodes == {US, <<"U", "A">>, <<"U", "N">>, <<"U", "P">>, <<"U", "R">>, LN, None}

\* the i-th candidate of a response: its ticker tells the candidates apart
Candidate(i, exch_code) ==
    IF exch_code = None THEN [ticker |-> <<"T", DigitChars[i + 1]>>]
    ELSE [exchCode |-> exch_code, ticker |-> <<"T", DigitChars[i + 1]>>]

CandidateLists ==
    UNION {{[i \in 1..n |-> Candidate(i, codes[i])] : codes \in [1..n -> ExchCodes]} :
            n \in 0..MaxCandidates}

\* a job's response: an error marker without data, or a list of candidates
BestInputs == {[error |-> <<>>]} \cup {[data |-> d] : d \in CandidateLists}

InitBest ==
    /\ job_response \in BestInputs
    /\ best_result = NoResult
    /\ best_pc = "called"

GetBest ==
    /\ best_pc = "called"
    /\ best_result' = get_best_openfigi_result(job_response)
    /\ best_pc' = "returned"
    /\ UNCHANGED <<readerVars, mergeVars, enhanceVars, pipelineVars, rateVars>>
    /\ UNCHANGED <<job_response, checksumVars, filterVars, plannerVars, mainVars>>

(***************************************************************************)
(* call-openfigi.py: the query planner                                     *)
(***************************************************************************)
\* x[2:11]
Slice2to11(x) == SubSeq(x, 3, 11)

\* `key not in cache or not cache[key].ticker`
NotResolved(c, key) == key \notin DOMAIN c \/ ~Truthy(c[key].ticker)

\* Each generator is run to exhaustion by tuple(...): ids is the tuple of the
\* identifiers it yields over the funds fs, queried the set it leaves behind.
RECURSIVE isins_from_sheet_for_funds(_, _, _)
isins_from_sheet_for_funds(fs, c, queried) ==
    IF fs = <<>> THEN [ids |-> <<>>, queried |-> queried]
    ELSE LET f == Head(fs)
             take == /\ Truthy(f.isin)
                     /\ NotResolved(c, Slice2to11(f.isin))
                     /\ Slice2to11(f.isin) \notin queried
             rest == isins_from_sheet_for_funds(Tail(fs), c,
                        IF take THEN queried \cup {Slice2to11(f.isin)} ELSE queried)
         IN  [ids |-> (IF take THEN <<f.isin>> ELSE <<>>) \o rest.ids,
              queried |-> rest.queried]

\* cusips_from_sheet_for_funds without the look-up of the cache
RECURSIVE cusips_from_sheet_ignoring_cache(_, _, _)
cusips_from_sheet_ignoring_cache(fs, c, queried) ==
    IF fs = <<>> THEN [ids |-> <<>>, queried |-> queried]
    ELSE LET f == Head(fs)
             take == /\ Truthy(f.cusip)
                     /\ f.cusip \notin queried
             rest == cusips_from_sheet_ignoring_cache(Tail(fs), c,
                        IF take THEN queried \cup {f.cusip} ELSE queried)
         IN  [ids |-> (IF take THEN <<f.cusip>> ELSE <<>>) \o rest.ids,
              queried |-> rest.queried]

RECURSIVE cusips_from_sheet_for_funds(_, _, _)
cusips_from_sheet_for_funds(fs, c, queried) ==
    IF fs = <<>> THEN [ids |-> <<>>, queried |-> queried]
    ELSE LET f == Head(fs)
             take == /\ Truthy(f.cusip)
                     /\ NotResolved(c, f.cusip)
                     /\ f.cusip \notin queried
             rest == cusips_from_sheet_for_funds(Tail(fs), c,
                        IF take THEN queried \cup {f.cusip} ELSE queried)
         IN  [ids |-> (IF take THEN <<f.cusip>> ELSE <<>>) \o rest.ids,
              queried |-> rest.queried]

RECURSIVE cusips_from_isins_for_funds(_, _, _)
cusips_from_isins_for_funds(fs, c, queried) ==
    IF fs = <<>> THEN [ids |-> <<>>, queried |-> queried]
    ELSE LET f == Head(fs)
             take == /\ Truthy(f.isin)
                     /\ NotResolved(c, Slice2to11(f.isin))
                     /\ Slice2to11(f.isin) \notin queried
             rest == cusips_from_isins_for_funds(Tail(fs), c,
                        IF take THEN queried \cup {Slice2to11(f.isin)} ELSE queried)
         IN  [ids |-> (IF take THEN <<Slice2to11(f.isin)>> ELSE <<>>) \o rest.ids,
              queried |-> rest.queried]

\* the generator of the third pass without the test of the cache entry
RECURSIVE isins_from_cusips_ignoring_cache(_, _, _)
isins_from_cusips_ignoring_cache(fs, c, queried) ==
    IF fs = <<>> THEN [ids |-> <<>>, queried |-> queried]
    ELSE LET f == Head(fs)
             take == /\ Truthy(f.cusip)
                     /\ f.cusip \notin queried
             rest == isins_from_cusips_ignoring_cache(Tail(fs), c,
                        IF take THEN queried \cup {f.cusip} ELSE queried)
         IN  [ids |-> (IF take THEN <<make_isin_from_cusip(f.cusip)>> ELSE <<>>) \o rest.ids,
              queried |-> rest.queried]

RECURSIVE isins_from_cusips_for_funds(_, _, _)
isins_from_cusips_for_funds(fs, c, queried) ==
    IF fs = <<>> THEN [ids |-> <<>>, queried |-> queried]
    ELSE LET f == Head(fs)
             take == /\ Truthy(f.cusip)
                     /\ NotResolved(c, f.cusip)
                     /\ f.cusip \notin queried
             rest == isins_from_cusips_for_funds(Tail(fs), c,
                        IF take THEN queried \cup {f.cusip} ELSE queried)
         IN  [ids |-> (IF take THEN <<make_isin_from_cusip(f.cusip)>> ELSE <<>>) \o rest.ids,
              queried |-> rest.queried]

(***************************************************************************)
(* call-openfigi.py: the batched remote caller                             *)
(***************************************************************************)
isin_to_openfigi_job(isin) == [idType |-> "ID_ISIN", idValue |-> isin, securityType |-> "ETP"]
cusip_to_openfigi_job(cusip) == [idType |-> "ID_CUSIP", idValue |-> cusip, securityType |-> "ETP"]

\* group_into_sublists without the final `if result: yield tuple(result)`
RECURSIVE group_into_full_sublists(_, _)
group_into_full_sublists(it, n) ==
    IF Len(it) >= n
    THEN <<SubSeq(it, 1, n)>> \o group_into_full_sublists(SubSeq(it, n + 1, Len(it)), n)
    ELSE <<>>

\* the tuples group_into_sublists yields, in order (n >= 1)
RECURSIVE group_into_sublists(_, _)
group_into_sublists(it, n) ==
    IF Len(it) >= n
    THEN <<SubSeq(it, 1, n)>> \o group_into_sublists(SubSeq(it, n + 1, Len(it)), n)
    ELSE IF it # <<>> THEN <<it>> ELSE <<>>

\* The arguments get_openfigi_results gives call_openfigi_stage in stage st
\* (lines 255-286): stages 1 and 3 query ISINs, stages 2 and 4 query CUSIPs.
IsinStage(st) == st \in {1, 3}
id_to_cusip(st, x) == IF IsinStage(st) THEN Slice2to11(x) ELSE x
id_to_job_fn(st, x) == IF IsinStage(st) THEN isin_to_openfigi_job(x) ELSE cusip_to_openfigi_job(x)

\* openfigi_jobs_grouped of the running stage
openfigi_jobs_grouped ==
    group_into_sublists([i \in 1..Len(ids_to_query) |-> id_to_job_fn(stage, ids_to_query[i])],
                        jobs_per_call)

\* dict(zip(keys, values)): zip stops at the shorter one, a later pair replaces
\* an earlier pair with the same key
DictZip(keys, values) ==
    LET n == IF Len(keys) < Len(values) THEN Len(keys) ELSE Len(values)
    IN  [k \in {keys[i] : i \in 1..n} |->
            values[CHOOSE i \in 1..n : keys[i] = k /\ \A j \in 1..n : keys[j] = k => j <= i]]

\* the dict built with every batch's identifiers paired with the results of
\* the first batch
cusips_to_tickerinfos_first_batch ==
    LET cusips == [i \in 1..Len(ids_to_query) |-> id_to_cusip(stage, ids_to_query[i])]
        n == IF Len(cusips) < Len(openfigi_results) THEN Len(cusips) ELSE Len(openfigi_results)
        tickerinfos == [i \in 1..n |->
            openfigi_result_as_tickerinfo(cusips[i], openfigi_results[((i - 1) % jobs_per_call) + 1])]
    IN  DictZip(cusips, tickerinfos)

\* cusips_to_tickerinfos (lines 216-218)
cusips_to_tickerinfos ==
    LET cusips == [i \in 1..Len(ids_to_query) |-> id_to_cusip(stage, ids_to_query[i])]
        n == IF Len(cusips) < Len(openfigi_results) THEN Len(cusips) ELSE Len(openfigi_results)
        tickerinfos == [i \in 1..n |-> openfigi_result_as_tickerinfo(cusips[i], openfigi_results[i])]
    IN  DictZip(cusips, tickerinfos)

\* c | d of two dicts: the entries of d, and those of c under the other keys
DictUnion(c, d) ==
    [k \in DOMAIN c \cup DOMAIN d |-> IF k \in DOMAIN d THEN d[k] ELSE c[k]]

\* the two sets started from the resolved entries of the cache only
InitialQueriedResolved(c) == {k \in DOMAIN c : Truthy(c[k].ticker)}

\* lines 252-253: the two sets start as the keys of the cache
InitialQueriedEmpty(c) == {}

InitialQueried(c) == DOMAIN c

(***************************************************************************)
(* get_openfigi_results as a state machine.  pc = "plan": the arguments of *)
(* the next call_openfigi_stage are about to be evaluated; pc = "stage":   *)
(* call_openfigi_stage is running; "done": the function returned; "failed":*)
(* call_openfigi raised and the exception left the function.               *)
(***************************************************************************)
MaxFunds == 2
MaxJobsPerCall == 2
MaxIds == 5

MSFT_CUSIP == <<"5", "9", "4", "9", "1", "8", "1", "0", "4">>
AMZN_CUSIP == <<"0", "2", "3", "1", "3", "5", "1", "0", "6">>
IBM_CUSIP == <<"4", "5", "9", "2", "0", "0", "1", "0", "1">>
KO_CUSIP == <<"1", "9", "1", "2", "1", "6", "1", "0", "0">>
TSLA_CUSIP == <<"8", "8", "1", "6", "0", "R", "1", "0", "1">>

\* the CUSIP-equivalent keys of the candidates
Keys == {AAPL_CUSIP, GOOG_CUSIP}
StageKeys == <<AAPL_CUSIP, GOOG_CUSIP, MSFT_CUSIP, AMZN_CUSIP, IBM_CUSIP, KO_CUSIP, TSLA_CUSIP>>
AllKeys == Range(StageKeys)

\* candidates as the filter writes them: an ISIN, a CUSIP or both
Candidates ==
    {[isin |-> i, cusip |-> c] :
        i \in {<<>>} \cup {make_isin_from_cusip(k) : k \in Keys},
        c \in {<<>>} \cup Keys} \ {[isin |-> <<>>, cusip |-> <<>>]}

FundTuples == UNION {[1..n -> Candidates] : n \in 0..MaxFunds}

\* rows of the cache file: a key resolved earlier, or one found without ticker
CachedTickerInfo(k, ticker) ==
    [cusip |-> k, ticker |-> ticker, fund_name |-> None, figi |-> None, exchange |-> US]
Caches ==
    UNION {[ks -> {<<"O", "L", "D">>, <<>>}] : ks \in SUBSET Keys}
LoadedCache(tickers) == [k \in DOMAIN tickers |-> CachedTickerInfo(k, tickers[k])]

\* what the service answers to one job: no data, a US listing, or a foreign
\* listing followed by a NYSE listing
JobResponses ==
    { [error |-> <<>>],
      [data |-> <<[exchCode |-> US, ticker |-> <<"A", "C", "M", "E">>, name |-> <<"N", "a", "m", "e">>, figi |-> <<"B", "B", "G", "0">>]>>],
      [data |-> <<[exchCode |-> LN, ticker |-> <<"X", "L", "N">>, name |-> <<"N", "a", "m", "e">>, figi |-> <<"B", "B", "G", "0">>]>>],
      [data |-> <<[exchCode |-> LN, ticker |-> <<"X", "L", "N">>, name |-> <<"N", "a", "m", "e">>, figi |-> <<"B", "B", "G", "0">>],
                  [exchCode |-> <<"U", "N">>, ticker |-> <<"B", "B", "B">>, name |-> <<"N", "a", "m", "e">>, figi |-> <<"B", "B", "G", "0">>]>>] }

InitRun ==
    /\ jobs_per_call \in 1..MaxJobsPerCall
    /\ cache = cache0
    /\ queried_isin_cusips = InitialQueried(cache0)
    /\ queried_cusips = InitialQueried(cache0)
    /\ calls = <<>>
    /\ openfigi_results = <<>> /\ openfigi_results_grouped = <<>>
    /\ stage_result = <<>>
    /\ plan_log = <<>>
    /\ writes = [k \in AllKeys |-> 0]
    /\ status_codes = <<>>

\* get_openfigi_results taken alone: no file, one invocation
IdleMain == output_file = NoFile /\ args_cache = FALSE /\ run = 1

InitPlanner ==
    /\ IdleMain
    /\ funds \in FundTuples
    /\ \E tickers \in Caches : cache0 = LoadedCache(tickers)
    /\ stage = 1
    /\ pc = "plan"
    /\ ids_to_query = <<>>
    /\ InitRun

\* Generator with the two derived passes in each other's place
GeneratorDerivedSwapped(st) ==
    CASE st = 1 -> isins_from_sheet_for_funds(funds, cache, queried_isin_cusips)
      [] st = 2 -> cusips_from_sheet_for_funds(funds, cache, queried_cusips)
      [] st = 3 -> cusips_from_isins_for_funds(funds, cache, queried_cusips)
      [] st = 4 -> isins_from_cusips_for_funds(funds, cache, queried_isin_cusips)

\* Generator whose derived passes start from empty dedup sets
GeneratorFreshSets(st) ==
    CASE st = 1 -> isins_from_sheet_for_funds(funds, cache, queried_isin_cusips)
      [] st = 2 -> cusips_from_sheet_for_funds(funds, cache, queried_cusips)
      [] st = 3 -> isins_from_cusips_for_funds(funds, cache, {})
      [] st = 4 -> cusips_from_isins_for_funds(funds, cache, {})

\* the generator of stage st and the set it shares
Generator(st) ==
    CASE st = 1 -> isins_from_sheet_for_funds(funds, cache, queried_isin_cusips)
      [] st = 2 -> cusips_from_sheet_for_funds(funds, cache, queried_cusips)
      [] st = 3 -> isins_from_cusips_for_funds(funds, cache, queried_isin_cusips)
      [] st = 4 -> cusips_from_isins_for_funds(funds, cache, queried_cusips)

\* tuple(<generator>(funds, cache, <set>)), the first argument of the stage
Plan ==
    /\ pc = "plan"
    /\ LET g == Generator(stage)
       IN  /\ ids_to_query' = g.ids
           /\ queried_isin_cusips' = IF IsinStage(stage) THEN g.queried ELSE queried_isin_cusips
           /\ queried_cusips' = IF IsinStage(stage) THEN queried_cusips ELSE g.queried
           /\ plan_log' = plan_log \o
                [i \in 1..Len(g.ids) |-> [stage |-> stage, key |-> id_to_cusip(stage, g.ids[i])]]
    /\ calls' = <<>>
    /\ openfigi_results' = <<>>
    /\ openfigi_results_grouped' = <<>>
    /\ pc' = "stage"
    /\ UNCHANGED <<readerVars, mergeVars, enhanceVars, pipelineVars, rateVars>>
    /\ UNCHANGED <<checksumVars, filterVars, bestVars, mainVars>>
    /\ UNCHANGED <<funds, jobs_per_call, cache, stage, stage_result, cache0, writes>>

\* `cache |= <returned dict>` and the move to the next stage or the return
Merge(returned) ==
    /\ stage_result' = returned
    /\ cache' = DictUnion(cache, returned)
    /\ writes' = [k \in AllKeys |-> IF k \in DOMAIN returned THEN writes[k] + 1 ELSE writes[k]]
    /\ IF stage = 4
       THEN pc' = "done" /\ stage' = stage
       ELSE pc' = "plan" /\ stage' = stage + 1

\* lines 199-201: nothing to query, dict() is returned without any call
StageEmpty ==
    /\ pc = "stage"
    /\ ids_to_query = <<>>
    /\ Merge(<<>>)
    /\ UNCHANGED <<readerVars, mergeVars, enhanceVars, pipelineVars, rateVars>>
    /\ UNCHANGED <<checksumVars, filterVars, bestVars, mainVars>>
    /\ UNCHANGED <<funds, jobs_per_call, queried_isin_cusips, queried_cusips,
                   ids_to_query, calls, openfigi_results, openfigi_results_grouped,
                   cache0, plan_log>>

\* dict(zip(...)) asks for one more result and the chain of responses is used
\* up: the next batch is posted; the service answers 200 with one result-set
\* per job
CallOpenFigiOk ==
    /\ pc = "stage"
    /\ ids_to_query # <<>>
    /\ Len(openfigi_results) < Len(ids_to_query)
    /\ Len(calls) < Len(openfigi_jobs_grouped)
    /\ LET jobs == openfigi_jobs_grouped[Len(calls) + 1]
       IN  /\ calls' = Append(calls, jobs)
           /\ \E response \in [1..Len(jobs) -> JobResponses] :
                /\ openfigi_results_grouped' = Append(openfigi_results_grouped, response)
                /\ openfigi_results' = openfigi_results \o
                    [i \in 1..Len(jobs) |-> get_best_openfigi_result(response[i])]
    /\ status_codes' = Append(status_codes, 200)
    /\ UNCHANGED <<readerVars, mergeVars, enhanceVars, pipelineVars, rateVars>>
    /\ UNCHANGED <<checksumVars, filterVars, bestVars>>
    /\ UNCHANGED <<output_file, args_cache, run>>
    /\ UNCHANGED <<funds, jobs_per_call, cache, queried_isin_cusips, queried_cusips,
                   stage, pc, ids_to_query, stage_result, cache0, plan_log, writes>>

\* CallOpenFigiFails that swallows the exception and leaves the batch to be
\* posted again
CallOpenFigiFailsRetried ==
    /\ pc = "stage"
    /\ ids_to_query # <<>>
    /\ Len(openfigi_results) < Len(ids_to_query)
    /\ Len(calls) < Len(openfigi_jobs_grouped)
    /\ Len(status_codes) < 2 * MaxIds
    /\ status_codes' = Append(status_codes, 500)
    /\ UNCHANGED <<readerVars, mergeVars, enhanceVars, pipelineVars, rateVars>>
    /\ UNCHANGED <<checksumVars, filterVars, bestVars>>
    /\ UNCHANGED <<funds, jobs_per_call, cache, queried_isin_cusips, queried_cusips,
                   stage, pc, ids_to_query, calls, openfigi_results,
                   openfigi_results_grouped, stage_result, cache0,
                   plan_log, writes, output_file, args_cache, run>>

\* the batch is posted and the status is not 200: call_openfigi raises
CallOpenFigiFails ==
    /\ pc = "stage"
    /\ ids_to_query # <<>>
    /\ Len(openfigi_results) < Len(ids_to_query)
    /\ Len(calls) < Len(openfigi_jobs_grouped)
    /\ calls' = Append(calls, openfigi_jobs_grouped[Len(calls) + 1])
    /\ pc' = "failed"
    /\ status_codes' = Append(status_codes, 500)
    /\ UNCHANGED <<readerVars, mergeVars, enhanceVars, pipelineVars, rateVars>>
    /\ UNCHANGED <<checksumVars, filterVars, bestVars>>
    /\ UNCHANGED <<output_file, args_cache, run>>
    /\ UNCHANGED <<funds, jobs_per_call, cache, queried_isin_cusips, queried_cusips,
                   stage, ids_to_query, openfigi_results, openfigi_results_grouped,
                   stage_result, cache0,
                   plan_log, writes>>

\* zip is exhausted: call_openfigi_stage returns cusips_to_tickerinfos
StageReturn ==
    /\ pc = "stage"
    /\ ids_to_query # <<>>
    /\ ~(Len(openfigi_results) < Len(ids_to_query) /\ Len(calls) < Len(openfigi_jobs_grouped))
    /\ Merge(cusips_to_tickerinfos)
    /\ UNCHANGED <<readerVars, mergeVars, enhanceVars, pipelineVars, rateVars>>
    /\ UNCHANGED <<checksumVars, filterVars, bestVars, mainVars>>
    /\ UNCHANGED <<funds, jobs_per_call, queried_isin_cusips, queried_cusips,
                   ids_to_query, calls, openfigi_results, openfigi_results_grouped,
                   cache0, plan_log>>

\* call_openfigi_stage alone, on the first k of seven identifiers
InitStage ==
    /\ IdleMain
    /\ funds = <<>>
    /\ cache0 = <<>>
    /\ stage \in {3, 4}
    /\ pc = "stage"
    /\ \E k \in 0..MaxIds :
        ids_to_query = [i \in 1..k |->
            IF IsinStage(stage) THEN make_isin_from_cusip(StageKeys[i]) ELSE StageKeys[i]]
    /\ InitRun

(***************************************************************************)
(* call-openfigi.py: rate_limit, as call_openfigi_stage uses it.  Time is  *)
(* counted in units of 1/19 second and a rate in hundredths of an item per *)
(* minute, so that 60 / (0.95 * R) is a whole number for the rates of the  *)
(* model.                                                                  *)
(***************************************************************************)
OPENFIGI_CALLS_PER_MINUTE_WITHOUT_KEY == 25

\* the rates of the model: the default without a key, and one per second
CallsPerMinute == {OPENFIGI_CALLS_PER_MINUTE_WITHOUT_KEY, 60}
\* how long call_openfigi may take, and by how much time.sleep may oversleep
CallTimes == {0, 25, 50}
Oversleeps == {0, 1}

\* line 210 with the rate as given, without the factor 0.95
items_per_minute_unreduced(cpm) == cpm * 100

\* line 210: calls_per_minute * 0.95
items_per_minute(cpm) == cpm * 95

\* line 114: 60.0 / items_per_minute
seconds_per_item(ipm) == (60 * 100 * 19) \div ipm

\* lines 117-119: what rate_limit passes to time.sleep before it yields the
\* next item; 0 when it does not call it
to_sleep(ipm) ==
    IF last_time # 0 /\ last_time + seconds_per_item(ipm) - now > 0
    THEN last_time + seconds_per_item(ipm) - now
    ELSE 0

\* call_openfigi_stage has been called with ids_to_query; nothing is posted yet
InitRate ==
    /\ IdleMain
    /\ funds = <<>>
    /\ cache0 = <<>>
    /\ stage \in {3, 4}
    /\ pc = "stage"
    /\ \E k \in 0..MaxIds :
        ids_to_query = [i \in 1..k |->
            IF IsinStage(stage) THEN make_isin_from_cusip(StageKeys[i]) ELSE StageKeys[i]]
    /\ InitRun
    /\ calls_per_minute \in CallsPerMinute
    /\ now = 1
    /\ last_time = 0
    /\ dispatch_times = <<>>
    /\ sleeps = <<>>
    /\ rate_pc = "between"

\* lines 116-121: map asks rate_limit for the next item; rate_limit takes the
\* next batch of openfigi_jobs_grouped, sleeps if it has to, reads the clock
\* and yields the batch, which is posted
RateLimitYield ==
    /\ rate_pc = "between"
    /\ ids_to_query # <<>>
    /\ Len(calls) < Len(openfigi_jobs_grouped)
    /\ \E seconds \in {to_sleep(items_per_minute(calls_per_minute))} :
       \E over \in Oversleeps :
            /\ seconds = 0 => over = 0
            /\ now' = now + seconds + over
            /\ sleeps' = IF seconds > 0
                         THEN Append(sleeps, [before_batch |-> Len(calls) + 1, seconds |-> seconds])
                         ELSE sleeps
    /\ last_time' = now'
    /\ dispatch_times' = Append(dispatch_times, now')
    /\ calls' = Append(calls, openfigi_jobs_grouped[Len(calls) + 1])
    /\ rate_pc' = "yielded"
    /\ UNCHANGED calls_per_minute
    /\ UNCHANGED <<funds, jobs_per_call, cache, queried_isin_cusips, queried_cusips,
                   stage, pc, ids_to_query, openfigi_results, openfigi_results_grouped,
                   stage_result, cache0,
                   plan_log, writes>>
    /\ UNCHANGED <<checksumVars, filterVars, bestVars, mainVars, readerVars, mergeVars, enhanceVars, pipelineVars>>

\* call_openfigi returns after some time and the results of the batch are
\* consumed: the next item is wanted
CallOpenFigiReturns ==
    /\ rate_pc = "yielded"
    /\ \E t \in CallTimes : now' = now + t
    /\ rate_pc' = "between"
    /\ UNCHANGED <<calls_per_minute, last_time, dispatch_times, sleeps>>
    /\ UNCHANGED <<checksumVars, filterVars, bestVars, plannerVars, mainVars, readerVars, mergeVars, enhanceVars, pipelineVars>>

\* openfigi_jobs_grouped is exhausted: the for loop of rate_limit ends
RateLimitExhausted ==
    /\ rate_pc = "between"
    /\ Len(calls) = Len(openfigi_jobs_grouped) \/ ids_to_query = <<>>
    /\ rate_pc' = "exhausted"
    /\ UNCHANGED <<calls_per_minute, now, last_time, dispatch_times, sleeps>>
    /\ UNCHANGED <<checksumVars, filterVars, bestVars, plannerVars, mainVars, readerVars, mergeVars, enhanceVars, pipelineVars>>

(***************************************************************************)
(* _csv_formats.py: the ticker-info file.  A file is its rows, a row the   *)
(* tuple of its cells; a regular expression searched in a cell is the set  *)
(* of the cells of the model it is found in.                               *)
(***************************************************************************)
_HEADER_CUSIP == <<"C", "U", "S", "I", "P">>
_HEADER_TICKER == <<"T", "i", "c", "k", "e", "r">>
_HEADER_NAME == <<"N", "a", "m", "e">>
_HEADER_FIGI == <<"F", "I", "G", "I">>
_HEADER_EXCHANGE == <<"E", "x", "c", "h", "a", "n", "g", "e">>

\* \bCUSIP\b, \bticker\b, \bname\b, \bFIGI\b, \bexchange\b: the cells of the model they are found in
_REGEXP_CUSIP == {_HEADER_CUSIP}
_REGEXP_TICKER == {_HEADER_TICKER}
_REGEXP_NAME == {_HEADER_NAME}
_REGEXP_FIGI == {_HEADER_FIGI}
_REGEXP_EXCHANGE == {_HEADER_EXCHANGE}

\* column_matching returns None: the columns of the model count from 1
NoColumn == 0

\* column_matching that returns the index of the last cell instead
column_matching_last(r, regexp) ==
    LET hits == {i \in DOMAIN r : r[i] \in regexp}
    IN  IF hits = {} THEN NoColumn ELSE CHOOSE i \in hits : \A j \in hits : j <= i

\* the index of the first cell the expression is found in
column_matching(r, regexp) ==
    LET hits == {i \in DOMAIN r : r[i] \in regexp}
    IN  IF hits = {} THEN NoColumn ELSE CHOOSE i \in hits : \A j \in hits : i <= j

\* the sentinels of safe_get_column: an em dash, 'no data'
EM_DASH == <<"u2014">>
NO_DATA == <<"n", "o", " ", "d", "a", "t", "a">>

safe_get_column(column, r) ==
    IF column # NoColumn /\ Len(r) >= column /\ r[column] \notin {EM_DASH, NO_DATA}
    THEN r[column] ELSE None

\* csv.writer writes None as the empty string
Cell(x) == IF x = None THEN <<>> ELSE x

write_tickerinfo_csv(tickerinfos) ==
    <<<<_HEADER_CUSIP, _HEADER_TICKER, _HEADER_NAME, _HEADER_FIGI, _HEADER_EXCHANGE>>>> \o
    [i \in DOMAIN tickerinfos |->
        <<Cell(tickerinfos[i].cusip), Cell(tickerinfos[i].ticker), Cell(tickerinfos[i].fund_name),
          Cell(tickerinfos[i].figi), Cell(tickerinfos[i].exchange)>>]

\* read_tickerinfo_csv run to its end: the records yielded, and whether it raised
read_tickerinfo_csv(rows) ==
    LET headers == {i \in DOMAIN rows : column_matching(rows[i], _REGEXP_CUSIP) # NoColumn}
    IN  IF headers = {} THEN [tickerinfos |-> <<>>, raised |-> TRUE]
        ELSE LET h == CHOOSE i \in headers : \A j \in headers : i <= j
                 ticker_column == column_matching(rows[h], _REGEXP_TICKER)
                 cusip_column == column_matching(rows[h], _REGEXP_CUSIP)
                 name_column == column_matching(rows[h], _REGEXP_NAME)
                 figi_column == column_matching(rows[h], _REGEXP_FIGI)
                 exchange_column == column_matching(rows[h], _REGEXP_EXCHANGE)
                 yields(i) == LET r == rows[i]
                              IN  IF Truthy(safe_get_column(cusip_column, r))
                                  THEN <<[cusip |-> safe_get_column(cusip_column, r),
                                          ticker |-> safe_get_column(ticker_column, r),
                                          fund_name |-> safe_get_column(name_column, r),
                                          figi |-> safe_get_column(figi_column, r),
                                          exchange |-> safe_get_column(exchange_column, r)]>>
                                  ELSE <<>>
             IN  [tickerinfos |-> Flatten([i \in 1..(Len(rows) - h) |-> yields(h + i)]),
                  raised |-> FALSE]

(***************************************************************************)
(* call-openfigi.py, __main__: get_openfigi_results on the cache file, the *)
(* file written when it returns; and the script invoked a second time      *)
(***************************************************************************)
\* StartCache that loads only the rows that have a ticker
StartCacheResolvedOnly(file, use_cache) ==
    IF use_cache /\ file.exists
    THEN LET all == read_tickerinfo_csv(file.rows).tickerinfos
             tickerinfos == Flatten([i \in DOMAIN all |->
                                IF Truthy(all[i].ticker) THEN <<all[i]>> ELSE <<>>])
         IN  DictZip([i \in DOMAIN tickerinfos |-> tickerinfos[i].cusip], tickerinfos)
    ELSE <<>>

\* lines 236-242: the cache loaded from the file args.output under --cache
StartCache(file, use_cache) ==
    IF use_cache /\ file.exists
    THEN LET tickerinfos == read_tickerinfo_csv(file.rows).tickerinfos
         IN  DictZip([i \in DOMAIN tickerinfos |-> tickerinfos[i].cusip], tickerinfos)
    ELSE <<>>

\* sorted(tickerinfos.values(), key=lambda t: t.cusip)
SortedByCusip(c) == LET ks == SortedStrings(DOMAIN c) IN [i \in DOMAIN ks |-> c[ks[i]]]

\* the files an earlier invocation may have left: none, one without rows,
\* one with a key resolved, one with a key resolved and a key without ticker
FileCaches ==
    { <<>>,
      [k \in {AAPL_CUSIP} |-> <<"O", "L", "D">>],
      [k \in Keys |-> IF k = GOOG_CUSIP THEN <<"O", "L", "D">> ELSE <<>>] }
Files == {NoFile} \cup
    {[exists |-> TRUE, rows |-> write_tickerinfo_csv(SortedByCusip(LoadedCache(tickers)))] :
        tickers \in FileCaches}

\* without --cache the file is not read
InitMain ==
    /\ \/ args_cache = TRUE /\ output_file \in Files
       \/ args_cache = FALSE /\ output_file \in {NoFile}
    /\ run = 1
    /\ funds \in FundTuples
    /\ cache0 = StartCache(output_file, args_cache)
    /\ stage = 1
    /\ pc = "plan"
    /\ ids_to_query = <<>>
    /\ InitRun

\* lines 334-335: get_openfigi_results returned, the file is written
WriteOutput ==
    /\ pc = "done"
    /\ output_file' = [exists |-> TRUE, rows |-> write_tickerinfo_csv(SortedByCusip(cache))]
    /\ pc' = "written"
    /\ UNCHANGED <<readerVars, mergeVars, enhanceVars, pipelineVars, rateVars>>
    /\ UNCHANGED <<checksumVars, filterVars, bestVars>>
    /\ UNCHANGED <<funds, jobs_per_call, cache, queried_isin_cusips, queried_cusips, stage,
                   ids_to_query, calls, openfigi_results, openfigi_results_grouped,
                   stage_result, cache0, plan_log,
                   writes, args_cache, run, status_codes>>

\* the script is invoked again on the same candidates and the same output
\* file, with --cache
Rerun ==
    /\ pc = "written"
    /\ run = 1
    /\ run' = 2
    /\ args_cache' = TRUE
    /\ cache0' = StartCache(output_file, args_cache')
    /\ cache' = cache0'
    /\ queried_isin_cusips' = InitialQueried(cache0')
    /\ queried_cusips' = InitialQueried(cache0')
    /\ stage' = 1
    /\ pc' = "plan"
    /\ ids_to_query' = <<>>
    /\ calls' = <<>>
    /\ openfigi_results' = <<>>
    /\ openfigi_results_grouped' = <<>>
    /\ stage_result' = <<>>
    /\ plan_log' = <<>>
    /\ writes' = [k \in AllKeys |-> 0]
    /\ status_codes' = <<>>
    /\ UNCHANGED <<readerVars, mergeVars, enhanceVars, pipelineVars, rateVars>>
    /\ UNCHANGED <<checksumVars, filterVars, bestVars>>
    /\ UNCHANGED <<funds, jobs_per_call, output_file>>

(***************************************************************************)
(* _csv_formats.py: the fund-info file and read_fundinfo_csv, a generator  *)
(* run one row of csv_in at a time                                         *)
(***************************************************************************)
_HEADER_SHARE_CLASS_REF == <<"S", "h", "a", "r", "e", " ", "C", "l", "a", "s", "s", " ", "R", "e", "f">>
_HEADER_FAMILY == <<"P", "a", "r", "e", "n", "t", " ", "F", "u", "n", "d">>
_HEADER_FUND_NAME == <<"S", "u", "b", "-", "F", "u", "n", "d">>
_HEADER_ISIN == <<"I", "S", "I", "N">>
_HEADER_FROM_DATE == <<"W", "i", "t", "h", " ", "E", "f", "f", "e", "c", "t", " ", "F", "r", "o", "m">>
_HEADER_TO_DATE == <<"C", "e", "a", "s", "e", "d">>
_HEADER_CATEGORY == <<"C", "a", "t", "e", "g", "o", "r", "y">>

\* \bshare\s+class\s+ref, \bparent\s+fund\b, \bsub\W+fund\b, \bISIN\b,
\* \bwith\s+effect\s+from\b, \bceased\b, \bcategory\b: the cells of the model
\* they are found in
_REGEXP_SHARE_CLASS_REF == {_HEADER_SHARE_CLASS_REF}
_REGEXP_FAMILY == {_HEADER_FAMILY}
_REGEXP_FUND_NAME == {_HEADER_FUND_NAME}
_REGEXP_ISIN == {_HEADER_ISIN}
_REGEXP_FROM_DATE == {_HEADER_FROM_DATE}
_REGEXP_TO_DATE == {_HEADER_TO_DATE}
_REGEXP_CATEGORY == {_HEADER_CATEGORY}

\* the header write_fundinfo_csv writes
fundinfo_header(include_enhanced_columns) ==
    <<_HEADER_SHARE_CLASS_REF, _HEADER_FAMILY, _HEADER_FUND_NAME, _HEADER_ISIN,
      _HEADER_CUSIP, _HEADER_FROM_DATE, _HEADER_TO_DATE>> \o
    (IF include_enhanced_columns
     THEN <<_HEADER_TICKER, _HEADER_CATEGORY, _HEADER_FIGI>> ELSE <<>>)

\* ref_column = parent_column = ... = figi_column = None
NoColumns ==
    [ref_column |-> NoColumn, parent_column |-> NoColumn, sub_column |-> NoColumn,
     isin_column |-> NoColumn, cusip_column |-> NoColumn, from_column |-> NoColumn,
     to_column |-> NoColumn, ticker_column |-> NoColumn, category_column |-> NoColumn,
     figi_column |-> NoColumn]

\* lines 137-146: the ten columns looked up in one row
MatchColumns(r) ==
    [ref_column |-> column_matching(r, _REGEXP_SHARE_CLASS_REF),
     parent_column |-> column_matching(r, _REGEXP_FAMILY),
     sub_column |-> column_matching(r, _REGEXP_FUND_NAME),
     isin_column |-> column_matching(r, _REGEXP_ISIN),
     cusip_column |-> column_matching(r, _REGEXP_CUSIP),
     from_column |-> column_matching(r, _REGEXP_FROM_DATE),
     to_column |-> column_matching(r, _REGEXP_TO_DATE),
     ticker_column |-> column_matching(r, _REGEXP_TICKER),
     category_column |-> column_matching(r, _REGEXP_CATEGORY),
     figi_column |-> column_matching(r, _REGEXP_FIGI)]

\* lines 149-151: one of the six data columns is None
MissingDataColumn(c) ==
    \/ c.parent_column = NoColumn \/ c.sub_column = NoColumn
    \/ c.isin_column = NoColumn \/ c.cusip_column = NoColumn
    \/ c.from_column = NoColumn \/ c.to_column = NoColumn

\* lines 157-167: the record built from a row
RowFundInfo(c, r) ==
    [share_class_ref |-> safe_get_column(c.ref_column, r),
     family |-> safe_get_column(c.parent_column, r),
     fund_name |-> safe_get_column(c.sub_column, r),
     isin |-> safe_get_column(c.isin_column, r),
     cusip |-> safe_get_column(c.cusip_column, r),
     from_date |-> safe_get_column(c.from_column, r),
     to_date |-> safe_get_column(c.to_column, r),
     ticker |-> safe_get_column(c.ticker_column, r),
     category |-> safe_get_column(c.category_column, r),
     figi |-> safe_get_column(c.figi_column, r)]

MaxCsvRows == 3

\* a row without one of its cells
Without(r, k) == [i \in 1..(Len(r) - 1) |-> IF i < k THEN r[i] ELSE r[i + 1]]

\* rows of the file: a title line, the header as written, the header lacking
\* one of its seven columns, a full data row, one with a blank reference, one
\* that ends after the reference, a header in another order that names ISIN
\* twice
TitleRow == <<<<"R", "e", "p", "o", "r", "t", "i", "n", "g", " ", "f", "u", "n", "d", "s">>>>
DataRow == <<R1, Family, FundName, AAPL_ISIN, <<>>, DATE_2015, <<>>>>
ShuffledHeader ==
    <<_HEADER_ISIN, _HEADER_TO_DATE, _HEADER_SHARE_CLASS_REF, _HEADER_FAMILY,
      _HEADER_FUND_NAME, _HEADER_ISIN, _HEADER_CUSIP, _HEADER_FROM_DATE>>
CsvRows ==
    {TitleRow, fundinfo_header(FALSE), ShuffledHeader}
    \cup {Without(fundinfo_header(FALSE), k) : k \in 1..7}
    \cup {DataRow, [DataRow EXCEPT ![1] = <<>>], <<R2>>}
CsvFiles == UNION {[1..n -> CsvRows] : n \in 0..MaxCsvRows}

InitReader ==
    /\ filelike \in CsvFiles
    /\ need_all_columns \in BOOLEAN
    /\ columns = NoColumns
    /\ rows_consumed = 0
    /\ fundinfos = <<>>
    /\ reader_pc = "iterating"

\* the row the for statement takes next
NextRow == filelike[rows_consumed + 1]

\* lines 136-147: no header seen yet, the row is tried as the header
MatchHeader ==
    /\ reader_pc = "iterating"
    /\ rows_consumed < Len(filelike)
    /\ columns.ref_column = NoColumn
    /\ columns' = MatchColumns(NextRow)
    /\ rows_consumed' = rows_consumed + 1
    /\ UNCHANGED <<filelike, need_all_columns, fundinfos, reader_pc>>
    /\ UNCHANGED <<checksumVars, filterVars, bestVars, plannerVars, mainVars, mergeVars, enhanceVars, pipelineVars, rateVars>>

\* lines 148-152: a row after the header, and a data column is missing
RaiseMissingColumns ==
    /\ reader_pc = "iterating"
    /\ rows_consumed < Len(filelike)
    /\ columns.ref_column # NoColumn
    /\ need_all_columns /\ MissingDataColumn(columns)
    /\ reader_pc' = "raised"
    /\ rows_consumed' = rows_consumed + 1
    /\ UNCHANGED <<filelike, need_all_columns, columns, fundinfos>>
    /\ UNCHANGED <<checksumVars, filterVars, bestVars, plannerVars, mainVars, mergeVars, enhanceVars, pipelineVars, rateVars>>

\* lines 154-156: a row without share class ref is passed over
SkipRow ==
    /\ reader_pc = "iterating"
    /\ rows_consumed < Len(filelike)
    /\ columns.ref_column # NoColumn
    /\ ~(need_all_columns /\ MissingDataColumn(columns))
    /\ ~Truthy(safe_get_column(columns.ref_column, NextRow))
    /\ rows_consumed' = rows_consumed + 1
    /\ UNCHANGED <<filelike, need_all_columns, columns, fundinfos, reader_pc>>
    /\ UNCHANGED <<checksumVars, filterVars, bestVars, plannerVars, mainVars, mergeVars, enhanceVars, pipelineVars, rateVars>>

\* lines 157-168: a record is yielded
YieldFundInfo ==
    /\ reader_pc = "iterating"
    /\ rows_consumed < Len(filelike)
    /\ columns.ref_column # NoColumn
    /\ ~(need_all_columns /\ MissingDataColumn(columns))
    /\ Truthy(safe_get_column(columns.ref_column, NextRow))
    /\ fundinfos' = Append(fundinfos, RowFundInfo(columns, NextRow))
    /\ rows_consumed' = rows_consumed + 1
    /\ UNCHANGED <<filelike, need_all_columns, columns, reader_pc>>
    /\ UNCHANGED <<checksumVars, filterVars, bestVars, plannerVars, mainVars, mergeVars, enhanceVars, pipelineVars, rateVars>>

\* lines 170-171: csv_in is exhausted and no header was seen
RaiseNoRefColumn ==
    /\ reader_pc = "iterating"
    /\ rows_consumed = Len(filelike)
    /\ columns.ref_column = NoColumn
    /\ reader_pc' = "raised"
    /\ UNCHANGED <<filelike, need_all_columns, columns, rows_consumed, fundinfos>>
    /\ UNCHANGED <<checksumVars, filterVars, bestVars, plannerVars, mainVars, mergeVars, enhanceVars, pipelineVars, rateVars>>

\* line 172: csv_in is exhausted, the generator ends
Exhausted ==
    /\ reader_pc = "iterating"
    /\ rows_consumed = Len(filelike)
    /\ columns.ref_column # NoColumn
    /\ reader_pc' = "exhausted"
    /\ UNCHANGED <<filelike, need_all_columns, columns, rows_consumed, fundinfos>>
    /\ UNCHANGED <<checksumVars, filterVars, bestVars, plannerVars, mainVars, mergeVars, enhanceVars, pipelineVars, rateVars>>

(***************************************************************************)
(* generate-wikitext.py: regular expressions of enhance_fund_data          *)
(***************************************************************************)
\* \w of an ASCII str
IsWordChar(c) == IsDigit(c) \/ IsUpper(c) \/ IsLower(c) \/ c = "_"

\* \b at the position between x[p] and x[p + 1] (p = 0: the start of x)
WordBoundary(x, p) ==
    (p >= 1 /\ IsWordChar(x[p])) # (p < Len(x) /\ IsWordChar(x[p + 1]))

\* two str equal under re.I
EqualIgnoringCase(a, b) == upper(a) = upper(b)

\* x[n:]
From(x, n) == SubSeq(x, n + 1, Len(x))

\* x[::-1]
Reverse(x) == [i \in 1..Len(x) |-> x[Len(x) + 1 - i]]

\* \s+ matched greedily at the start of x: the number of characters it takes
RECURSIVE LeadingWhitespace(_)
LeadingWhitespace(x) ==
    IF x # <<>> /\ Head(x) \in Whitespace THEN 1 + LeadingWhitespace(Tail(x)) ELSE 0

\* the alternatives of family_regex: '|'.join of no names is the empty pattern
Alternatives(families) == IF families = <<>> THEN <<<<>>>> ELSE families

FirstIndex(S) == CHOOSE i \in S : \A j \in S : i <= j

\* the first of the alternatives in hits, as it stands in family
FirstAlternative(alts, family, hits) ==
    IF hits = {} THEN None ELSE SubSeq(family, 1, Len(alts[FirstIndex(hits)]))

\* family_regex.match(family): ^(name1|name2|...)\b under re.I tries the names
\* in the order of the list; the result is m.group(1), None without a match
family_regex_match(families, family) ==
    FirstAlternative(Alternatives(families), family,
        {i \in DOMAIN Alternatives(families) :
            /\ Len(family) >= Len(Alternatives(families)[i])
            /\ EqualIgnoringCase(SubSeq(family, 1, Len(Alternatives(families)[i])),
                                 Alternatives(families)[i])
            /\ WordBoundary(family, Len(Alternatives(families)[i]))})

\* line 117: re.sub('^' + re.escape(family) + r'\s+', '', fund_name, re.I).
\* The fourth positional argument of re.sub is count, so re.I is a count of
\* 2 and the pattern is matched case-sensitively, once, at the start; \s+
\* takes every blank that follows the family
strip_family(family, fund_name) ==
    IF /\ Len(fund_name) > Len(family)
       /\ SubSeq(fund_name, 1, Len(family)) = family
       /\ fund_name[Len(family) + 1] \in Whitespace
    THEN lstrip(From(fund_name, Len(family)))
    ELSE fund_name

\* \b(shares?|class)\b found under re.I somewhere in x[q:], boundaries taken
\* in x
RubbishWords == {<<"S", "H", "A", "R", "E">>, <<"S", "H", "A", "R", "E", "S">>, <<"C", "L", "A", "S", "S">>}
HasRubbishWord(x, q) ==
    \E w \in RubbishWords : \E p \in q..(Len(x) - Len(w)) :
        /\ upper(SubSeq(x, p + 1, p + Len(w))) = w
        /\ WordBoundary(x, p)
        /\ WordBoundary(x, p + Len(w))

\* the match of the trailing pattern without the word boundary in front of
\* the blanks and the dash
TrailingRubbishCutUnanchored(x, p, q) ==
    IF /\ q - p - 1 >= 1
       /\ WordBoundary(x, q)
       /\ q < Len(x)
       /\ HasRubbishWord(x, q)
    THEN SubSeq(x, 1, p)
    ELSE x

\* the match of _REGEXP_TRAILING_RUBBISH around the dash x[d]: p characters
\* stand before the blanks in front of the dash, the blanks behind it end at q
TrailingRubbishCut(x, p, q) ==
    IF /\ q - p - 1 >= 1
       /\ WordBoundary(x, p)
       /\ WordBoundary(x, q)
       /\ q < Len(x)
       /\ HasRubbishWord(x, q)
    THEN SubSeq(x, 1, p)
    ELSE x

TrailingRubbishAt(x, d) ==
    TrailingRubbishCut(x, d - 1 - LeadingWhitespace(Reverse(SubSeq(x, 1, d - 1))),
                       d + LeadingWhitespace(From(x, d)))

LastIndex(S) == CHOOSE i \in S : \A j \in S : j <= i

\* _REGEXP_TRAILING_RUBBISH.sub('', x), with
\* \b(\s+-\s*|\s*-\s+)\b(?=.*\b(shares?|class)\b)([^-]+)$: [^-]+$ makes the dash
\* the last one of x; the blanks on both sides of it are taken whole because
\* \b must hold on both ends, and at least one side has a blank
REGEXP_TRAILING_RUBBISH_sub(x) ==
    IF \A i \in DOMAIN x : x[i] # "-" THEN x
    ELSE TrailingRubbishAt(x, LastIndex({i \in DOMAIN x : x[i] = "-"}))

(***************************************************************************)
(* generate-wikitext.py: enhance_fund_data, one candidate at a time.  The  *)
(* script always exits on an uncategorized fund; enhance_fund_data of      *)
(* generate_etfs_list.py takes no_die_on_uncategorized_funds, which is     *)
(* FALSE for the script.                                                   *)
(***************************************************************************)
\* result_for_fundinfo that looks the raw CUSIP up first
result_for_fundinfo_cusip_first(f, tickerinfos) ==
    IF Truthy(f.cusip) /\ f.cusip \in DOMAIN tickerinfos /\ Truthy(tickerinfos[f.cusip].ticker)
    THEN [cusip |-> f.cusip, tickerinfo |-> tickerinfos[f.cusip]]
    ELSE IF Truthy(f.isin) /\ Slice2to11(f.isin) \in DOMAIN tickerinfos
            /\ Truthy(tickerinfos[Slice2to11(f.isin)].ticker)
    THEN [cusip |-> Slice2to11(f.isin), tickerinfo |-> tickerinfos[Slice2to11(f.isin)]]
    ELSE [cusip |-> None, tickerinfo |-> NoResult]

result_for_fundinfo(f, tickerinfos) ==
    IF Truthy(f.isin) /\ Slice2to11(f.isin) \in DOMAIN tickerinfos
       /\ Truthy(tickerinfos[Slice2to11(f.isin)].ticker)
    THEN [cusip |-> Slice2to11(f.isin), tickerinfo |-> tickerinfos[Slice2to11(f.isin)]]
    ELSE IF Truthy(f.cusip) /\ f.cusip \in DOMAIN tickerinfos /\ Truthy(tickerinfos[f.cusip].ticker)
    THEN [cusip |-> f.cusip, tickerinfo |-> tickerinfos[f.cusip]]
    ELSE [cusip |-> None, tickerinfo |-> NoResult]

\* lines 115-122: the fund name is cleaned, first of the family (stripped is
\* fund_name after line 117), then of the trailing rubbish
CleanFundName(f, stripped) ==
    [outcome |-> "appended",
     fund |-> [f EXCEPT !.fund_name = REGEXP_TRAILING_RUBBISH_sub(stripped)],
     stripped |-> stripped]

\* lines 104-114: the category of the fund
Categorize(f, categories) ==
    IF f.cusip \notin DOMAIN categories
    THEN [outcome |-> "uncategorized", fund |-> f, stripped |-> None]
    ELSE IF ~Truthy(categories[f.cusip])
    THEN [outcome |-> "blank", fund |-> f, stripped |-> None]
    ELSE CleanFundName([f EXCEPT !.category = categories[f.cusip]],
                       strip_family(f.family, f.fund_name))

\* lines 98-103: the family is replaced by m.group(1)
ReplaceFamily(f, m) == IF m # None THEN [f EXCEPT !.family = m] ELSE f

\* Resolve without the test of seen_cusips
ResolveUnguarded(f, r, families, categories, seen) ==
    IF r.tickerinfo = NoResult
    THEN [outcome |-> "skipped", fund |-> f, stripped |-> None]
    ELSE Categorize(
            ReplaceFamily([f EXCEPT !.ticker = r.tickerinfo.ticker, !.cusip = r.cusip,
                                    !.isin = make_isin_from_cusip(r.cusip)],
                          family_regex_match(families, f.family)),
            categories)

\* lines 88-97: the fund is passed over, or takes ticker, cusip and isin of
\* the result r
Resolve(f, r, families, categories, seen) ==
    IF r.tickerinfo = NoResult \/ r.cusip \in seen
    THEN [outcome |-> "skipped", fund |-> f, stripped |-> None]
    ELSE Categorize(
            ReplaceFamily([f EXCEPT !.ticker = r.tickerinfo.ticker, !.cusip = r.cusip,
                                    !.isin = make_isin_from_cusip(r.cusip)],
                          family_regex_match(families, f.family)),
            categories)

\* lines 87-122: the loop body on the candidate f.  outcome tells where the
\* iteration ended: "skipped" (line 91), "uncategorized" (line 108), "blank"
\* (line 111) or "appended" (line 122)
EnhanceBody(f, tickerinfos, families, categories, seen) ==
    Resolve(f, result_for_fundinfo(f, tickerinfos), families, categories, seen)

\* line 131: the key of result.sort
SortKey(f) == upper(f.family) \o <<" ", " ", " ", " ">> \o upper(f.fund_name)

\* a record goes behind the records of a sorted list whose key is not greater
InsertFund(rest, last) ==
    SelectSeq(rest, LAMBDA g : ~LessStr(SortKey(last), SortKey(g))) \o <<last>> \o
    SelectSeq(rest, LAMBDA g : LessStr(SortKey(last), SortKey(g)))

\* list.sort is stable
RECURSIVE SortedFunds(_)
SortedFunds(fs) ==
    IF fs = <<>> THEN <<>>
    ELSE InsertFund(SortedFunds(SubSeq(fs, 1, Len(fs) - 1)), fs[Len(fs)])

\* sys.exit(1) that takes no notice of no_die_on_uncategorized_funds
MustExitAlways(uncategorized, no_die) == uncategorized # <<>>

\* lines 124-129 (generate_etfs_list.py 776-782): the run is given up
MustExit(uncategorized, no_die) == uncategorized # <<>> /\ ~no_die

MaxEnhanced == 2

\* a candidate as read_fundinfo_csv reads it from the filtered file
FilteredFund(ref, family, fund_name, isin, cusip) ==
    [share_class_ref |-> ref, family |-> family, fund_name |-> fund_name, isin |-> isin,
     cusip |-> cusip, from_date |-> DATE_2015, to_date |-> <<>>,
     ticker |-> None, category |-> None, figi |-> None]

ACME == <<"A", "c", "m", "e">>
ACME_GROUP == <<"A", "c", "m", "e", " ", "G", "r", "o", "u", "p">>
ACME_00 == <<"A", "C", "M", "E", "-", "0", "0">>
ACME_001 == ACME_00 \o str(1)
GROWTH_FUND_CLASS_A == <<"A", "c", "m", "e", " ", "G", "r", "o", "u", "p", " ", "-", " ", "G", "r", "o", "w", "t", "h", " ", "F", "u", "n", "d", " ", "C", "l", "a", "s", "s", " ", "A">>
LARGE_CAP == <<"L", "a", "r", "g", "e", " ", "C", "a", "p">>

\* family and fund_name of a candidate: a family that goes on after two names
\* of the list, one in another letter case, one as in the list, one that only
\* begins like a name of the list
CandidateNames ==
    { <<<<"A", "c", "m", "e", " ", "G", "r", "o", "u", "p", " ", "L", "t", "d">>, <<"A", "c", "m", "e", " ", "G", "r", "o", "u", "p", " ", "G", "r", "o", "w", "t", "h", " ", "-", " ", "C", "l", "a", "s", "s", " ", "A">>>>,
      <<<<"A", "C", "M", "E", " ", "G", "R", "O", "U", "P">>, GROWTH_FUND_CLASS_A>>,
      <<ACME_GROUP, GROWTH_FUND_CLASS_A>>,
      <<<<"A", "c", "m", "e", "c", "o">>, <<"A", "c", "m", "e", "c", "o", " ", " ", "I", "n", "c", "o", "m", "e", " ", "-", "S", "h", "a", "r", "e", "s", " ", "B">>>> }
\* isin and cusip of a candidate: one, the other, or both and of two securities
CandidateIds == { <<AAPL_ISIN, <<>>>>, <<<<>>, AAPL_CUSIP>>, <<make_isin_from_cusip(GOOG_CUSIP), AAPL_CUSIP>> }

\* the candidates: every reference occurs once
CandidateTuples ==
    UNION {{[i \in 1..n |-> FilteredFund(ACME_00 \o str(i), ch[i][1][1], ch[i][1][2], ch[i][2][1], ch[i][2][2])] :
                ch \in [1..n -> CandidateNames \X CandidateIds]} : n \in 0..MaxEnhanced}

\* a row of the ticker-info file as read_tickerinfo_csv reads it
ReadTickerInfo(k, ticker) ==
    [cusip |-> k, ticker |-> ticker, fund_name |-> <<"N", "a", "m", "e">>, figi |-> <<"B", "B", "G", "0">>, exchange |-> US]
\* the ticker-info file: one key resolved, the other found without ticker
TickerInfoDicts ==
    { [k \in Keys |-> ReadTickerInfo(k, IF k = AAPL_CUSIP THEN upper(ACME) ELSE <<>>)],
      [k \in Keys |-> ReadTickerInfo(k, IF k = GOOG_CUSIP THEN <<"G", "G", "G">> ELSE upper(ACME))] }
\* the families file: the shorter name first, the longer first, one name, none
FamilyLists == { <<ACME, ACME_GROUP>>, <<ACME_GROUP, ACME>>, <<ACME_GROUP>>, <<>> }
\* the categories file: no row, a category and a blank one, a row for one
\* key only
CategoryDicts ==
    { <<>>,
      [k \in Keys |-> IF k = AAPL_CUSIP THEN LARGE_CAP ELSE <<>>],
      [k \in {GOOG_CUSIP} |-> <<"B", "o", "n", "d", "s">>] }

\* lines 80-84: the locals of enhance_fund_data
InitLoop ==
    /\ funds_enhanced = 0
    /\ enhanced = <<>>
    /\ seen_cusips = {}
    /\ uncategorized_funds = <<>>
    /\ names_cleaned = <<>>
    /\ enhance_pc = "loop"

InitEnhance ==
    /\ fund_info \in CandidateTuples
    /\ cusip_to_tickerinfo \in TickerInfoDicts
    /\ fund_families \in FamilyLists
    /\ fund_categories \in CategoryDicts
    /\ no_die_on_uncategorized_funds \in BOOLEAN
    /\ InitLoop

\* lines 85-122: one iteration of `for fund in funds`
EnhanceFund ==
    /\ enhance_pc = "loop"
    /\ funds_enhanced < Len(fund_info)
    /\ \E f \in {fund_info[funds_enhanced + 1]} :
       \E b \in {EnhanceBody(f, cusip_to_tickerinfo, fund_families, fund_categories, seen_cusips)} :
           /\ seen_cusips' = IF b.outcome = "skipped" THEN seen_cusips
                             ELSE seen_cusips \cup {b.fund.cusip}
           /\ uncategorized_funds' = IF b.outcome = "uncategorized"
                                     THEN Append(uncategorized_funds, b.fund)
                                     ELSE uncategorized_funds
           /\ enhanced' = IF b.outcome = "appended" THEN Append(enhanced, b.fund) ELSE enhanced
           /\ names_cleaned' =
                IF b.outcome = "appended"
                THEN Append(names_cleaned,
                            [share_class_ref |-> f.share_class_ref, family |-> b.fund.family,
                             before |-> f.fund_name, after |-> b.stripped])
                ELSE names_cleaned
    /\ funds_enhanced' = funds_enhanced + 1
    /\ UNCHANGED <<fund_info, cusip_to_tickerinfo, fund_families, fund_categories,
                   no_die_on_uncategorized_funds, enhance_pc>>
    /\ UNCHANGED <<checksumVars, filterVars, bestVars, plannerVars, mainVars, readerVars, mergeVars, pipelineVars, rateVars>>

\* lines 124-129: uncategorized funds are reported and the script exits
EnhanceExit ==
    /\ enhance_pc = "loop"
    /\ funds_enhanced = Len(fund_info)
    /\ MustExit(uncategorized_funds, no_die_on_uncategorized_funds)
    /\ enhance_pc' = "exit"
    /\ UNCHANGED <<fund_info, cusip_to_tickerinfo, fund_families, fund_categories,
                   no_die_on_uncategorized_funds, funds_enhanced, enhanced, seen_cusips,
                   uncategorized_funds, names_cleaned>>
    /\ UNCHANGED <<checksumVars, filterVars, bestVars, plannerVars, mainVars, readerVars, mergeVars, pipelineVars, rateVars>>

\* lines 130-132: the result is sorted and returned
EnhanceReturn ==
    /\ enhance_pc = "loop"
    /\ funds_enhanced = Len(fund_info)
    /\ ~MustExit(uncategorized_funds, no_die_on_uncategorized_funds)
    /\ enhanced' = SortedFunds(enhanced)
    /\ enhance_pc' = "returned"
    /\ UNCHANGED <<fund_info, cusip_to_tickerinfo, fund_families, fund_categories,
                   no_die_on_uncategorized_funds, funds_enhanced, seen_cusips,
                   uncategorized_funds, names_cleaned>>
    /\ UNCHANGED <<checksumVars, filterVars, bestVars, plannerVars, mainVars, readerVars, mergeVars, pipelineVars, rateVars>>

(***************************************************************************)
(* The three scripts run one after the other: filter-hmrc-sheet.py writes  *)
(* the candidates file, call-openfigi.py reads it and writes the           *)
(* ticker-info file, generate-wikitext.py reads both                       *)
(***************************************************************************)
\* _csv_formats.py, fundinfo_to_csv_row
fundinfo_to_csv_row(fundinfo, include_enhanced_columns) ==
    <<fundinfo.share_class_ref, fundinfo.family, fundinfo.fund_name, fundinfo.isin,
      fundinfo.cusip, fundinfo.from_date, fundinfo.to_date>> \o
    (IF include_enhanced_columns
     THEN <<fundinfo.ticker, fundinfo.category, fundinfo.figi>> ELSE <<>>)

\* csv.writer.writerow
WrittenRow(r) == [i \in DOMAIN r |-> Cell(r[i])]

\* read_fundinfo_csv run to its end on the rows left, the columns found and
\* the records yielded so far: the records yielded, and whether it raised
RECURSIVE ReadFundInfos(_, _, _, _)
ReadFundInfos(rows, need_all, cols, acc) ==
    IF rows = <<>> THEN [fundinfos |-> acc, raised |-> cols.ref_column = NoColumn]
    ELSE IF cols.ref_column = NoColumn
    THEN ReadFundInfos(Tail(rows), need_all, MatchColumns(Head(rows)), acc)
    ELSE IF need_all /\ MissingDataColumn(cols) THEN [fundinfos |-> acc, raised |-> TRUE]
    ELSE IF ~Truthy(safe_get_column(cols.ref_column, Head(rows)))
    THEN ReadFundInfos(Tail(rows), need_all, cols, acc)
    ELSE ReadFundInfos(Tail(rows), need_all, cols, Append(acc, RowFundInfo(cols, Head(rows))))

read_fundinfo_csv(rows, need_all) == ReadFundInfos(rows, need_all, NoColumns, <<>>)

\* the sheet: a title line or none, the header, and the row of Acme Group
\* alone, after an empty line, or with the row of a fund of foreign domicile
\* before or after it
ACME_ROW == <<ACME_001, ACME_GROUP, GROWTH_FUND_CLASS_A, AAPL_ISIN, <<>>, DATE_2015, <<>>>>
FOREIGN_ROW == <<R2, Family, FundName, GB_ISIN, <<>>, DATE_2015, <<>>>>
Sheets ==
    {title \o <<fundinfo_header(FALSE)>> \o data :
        title \in {<<>>, <<TitleRow>>},
        data \in {<<ACME_ROW>>, <<<<>>, ACME_ROW>>, <<ACME_ROW, FOREIGN_ROW>>,
                  <<FOREIGN_ROW, ACME_ROW>>}}

\* filter-hmrc-sheet.py, __main__: no errata file; the output file is opened
\* and its header written
InitPipeline ==
    /\ filelike \in Sheets
    /\ need_all_columns = TRUE
    /\ columns = NoColumns
    /\ rows_consumed = 0
    /\ fundinfos = <<>>
    /\ reader_pc = "iterating"
    /\ errata = <<>>
    /\ row = FundInfo(None, None, None, None, None)
    /\ fund = FundInfo(None, None, None, None, None)
    /\ merged = FundInfo(None, None, None, None, None)
    /\ yielded = FALSE
    /\ rows_read = 0
    /\ fund_count = 0
    /\ candidates_file = [exists |-> TRUE, rows |-> <<fundinfo_header(FALSE)>>]

\* sheet_to_fund_info on the next record read from the sheet; a record it
\* yields is written to the candidates file
FilterSheetRecord ==
    /\ rows_read < Len(fundinfos)
    /\ \E r \in {fundinfos[rows_read + 1]} : FilterRecord(r)
    /\ candidates_file' =
        IF yielded'
        THEN [candidates_file EXCEPT !.rows = Append(@, WrittenRow(fundinfo_to_csv_row(fund', FALSE)))]
        ELSE candidates_file

\* call-openfigi.py, __main__: the candidates are read and
\* get_openfigi_results is called
StartCallOpenFigi ==
    /\ reader_pc = "exhausted"
    /\ rows_read = Len(fundinfos)
    /\ pc = "idle"
    /\ funds' = read_fundinfo_csv(candidates_file.rows, TRUE).fundinfos
    /\ jobs_per_call' \in 1..MaxJobsPerCall
    /\ cache0' = StartCache(output_file, args_cache)
    /\ cache' = cache0'
    /\ queried_isin_cusips' = InitialQueried(cache0')
    /\ queried_cusips' = InitialQueried(cache0')
    /\ stage' = 1
    /\ pc' = "plan"
    /\ ids_to_query' = <<>>
    /\ calls' = <<>>
    /\ openfigi_results' = <<>>
    /\ openfigi_results_grouped' = <<>>
    /\ stage_result' = <<>>
    /\ plan_log' = <<>>
    /\ writes' = [k \in AllKeys |-> 0]
    /\ status_codes' = <<>>
    /\ UNCHANGED <<output_file, args_cache, run>>
    /\ UNCHANGED <<checksumVars, filterVars, bestVars, readerVars, mergeVars, enhanceVars, pipelineVars, rateVars>>

\* the families file names Acme Group, alone or with a shorter name
PipelineFamilyLists == { <<ACME_GROUP>>, <<ACME, ACME_GROUP>>, <<ACME_GROUP, ACME>> }
\* the categories file has no row, or the row of 037833100
PipelineCategoryDicts == { <<>>, [k \in {AAPL_CUSIP} |-> LARGE_CAP] }

\* generate-wikitext.py, __main__: the candidates, the ticker-info file, the
\* families and the categories are read and enhance_fund_data is called
StartGenerateWikitext ==
    /\ pc = "written"
    /\ enhance_pc = "idle"
    /\ fund_info' = read_fundinfo_csv(candidates_file.rows, TRUE).fundinfos
    /\ \E tickerinfos \in {read_tickerinfo_csv(output_file.rows).tickerinfos} :
        cusip_to_tickerinfo' = DictZip([i \in DOMAIN tickerinfos |-> tickerinfos[i].cusip], tickerinfos)
    /\ fund_families' \in PipelineFamilyLists
    /\ fund_categories' \in PipelineCategoryDicts
    /\ no_die_on_uncategorized_funds' = FALSE
    /\ funds_enhanced' = 0
    /\ enhanced' = <<>>
    /\ seen_cusips' = {}
    /\ uncategorized_funds' = <<>>
    /\ names_cleaned' = <<>>
    /\ enhance_pc' = "loop"
    /\ UNCHANGED <<checksumVars, filterVars, bestVars, plannerVars, mainVars, readerVars, mergeVars, pipelineVars, rateVars>>

(***************************************************************************)
(* Specifications: each runs one part of the pipeline, the other parts     *)
(* standing idle                                                           *)
(***************************************************************************)
NoFund == FundInfo(None, None, None, None, None)

IdleReader ==
    /\ filelike = <<>> /\ need_all_columns = FALSE /\ columns = NoColumns
    /\ rows_consumed = 0 /\ fundinfos = <<>> /\ reader_pc = "idle"
IdleEnhance ==
    /\ fund_info = <<>> /\ cusip_to_tickerinfo = <<>> /\ fund_families = <<>>
    /\ fund_categories = <<>> /\ no_die_on_uncategorized_funds = FALSE
    /\ funds_enhanced = 0 /\ enhanced = <<>> /\ seen_cusips = {} /\ uncategorized_funds = <<>>
    /\ names_cleaned = <<>> /\ enhance_pc = "idle"
IdlePipeline == candidates_file = NoFile
IdleRate ==
    /\ calls_per_minute = OPENFIGI_CALLS_PER_MINUTE_WITHOUT_KEY
    /\ now = 1
    /\ last_time = 0
    /\ dispatch_times = <<>>
    /\ sleeps = <<>>
    /\ rate_pc = "idle"
IdleChecksum == s = <<>> /\ out = None /\ op = "idle"
IdleMerge == errata_filelikes = <<>> /\ errata_read = 0 /\ merge_pc = "idle"
IdleFilter ==
    /\ errata = <<>> /\ row = NoFund /\ fund = NoFund /\ merged = NoFund /\ yielded = FALSE
    /\ rows_read = MaxRows /\ fund_count = 0
    /\ IdleMerge
IdleBest == job_response = [error |-> <<>>] /\ best_result = NoResult /\ best_pc = "idle"
IdlePlanner ==
    /\ funds = <<>> /\ cache0 = <<>> /\ stage = 4 /\ pc = "idle" /\ ids_to_query = <<>>
    /\ jobs_per_call = 1 /\ cache = <<>> /\ queried_isin_cusips = {} /\ queried_cusips = {}
    /\ calls = <<>> /\ openfigi_results = <<>> /\ openfigi_results_grouped = <<>> /\ stage_result = <<>> /\ plan_log = <<>>
    /\ writes = [k \in AllKeys |-> 0]
    /\ IdleMain /\ status_codes = <<>>

\* the checksum engine
InitSpecChecksum == InitChecksum /\ IdleFilter /\ IdleBest /\ IdlePlanner /\ IdleReader /\ IdleEnhance /\ IdlePipeline /\ IdleRate
NextChecksum == CusipCheckDigit \/ IsinCheckDigit \/ MakeIsinFromCusip
SpecChecksum == InitSpecChecksum /\ [][NextChecksum]_vars

\* the candidate filter
InitSpecFilter == InitFilter /\ IdleMerge /\ IdleChecksum /\ IdleBest /\ IdlePlanner /\ IdleReader /\ IdleEnhance /\ IdlePipeline /\ IdleRate
NextFilter == FilterRow
SpecFilter == InitSpecFilter /\ [][NextFilter]_vars

\* best-match selection
InitSpecBest == InitBest /\ IdleChecksum /\ IdleFilter /\ IdlePlanner /\ IdleReader /\ IdleEnhance /\ IdlePipeline /\ IdleRate
NextBest == GetBest
SpecBest == InitSpecBest /\ [][NextBest]_vars

\* one call of call_openfigi_stage
InitSpecStage == InitStage /\ IdleChecksum /\ IdleFilter /\ IdleBest /\ IdleReader /\ IdleEnhance /\ IdlePipeline /\ IdleRate
NextStage == StageEmpty \/ CallOpenFigiOk \/ CallOpenFigiFails \/ StageReturn
SpecStage == InitSpecStage /\ [][NextStage]_vars

\* one run of get_openfigi_results
Init == InitPlanner /\ IdleChecksum /\ IdleFilter /\ IdleBest /\ IdleReader /\ IdleEnhance /\ IdlePipeline /\ IdleRate
Next == Plan \/ StageEmpty \/ CallOpenFigiOk \/ CallOpenFigiFails \/ StageReturn
Spec == Init /\ [][Next]_vars

\* call-openfigi.py invoked, and invoked again
InitSpecMain == InitMain /\ IdleChecksum /\ IdleFilter /\ IdleBest /\ IdleReader /\ IdleEnhance /\ IdlePipeline /\ IdleRate
NextMain ==
    \/ Plan \/ StageEmpty \/ CallOpenFigiOk \/ CallOpenFigiFails \/ StageReturn
    \/ WriteOutput \/ Rerun
SpecMain == InitSpecMain /\ [][NextMain]_vars

\* read_fundinfo_csv alone
InitSpecReader == InitReader /\ IdleChecksum /\ IdleFilter /\ IdleBest /\ IdlePlanner /\ IdleEnhance /\ IdlePipeline /\ IdleRate
NextReader ==
    MatchHeader \/ RaiseMissingColumns \/ SkipRow \/ YieldFundInfo \/ RaiseNoRefColumn \/ Exhausted
SpecReader == InitSpecReader /\ [][NextReader]_vars

\* merge_errata, then sheet_to_fund_info on its result
InitSpecMerge == InitMerge /\ IdleChecksum /\ IdleBest /\ IdlePlanner /\ IdleReader /\ IdleEnhance /\ IdlePipeline /\ IdleRate
NextMerge == MergeErratum \/ MergeErrataReturn \/ FilterErrataRow
SpecMerge == InitSpecMerge /\ [][NextMerge]_vars

\* enhance_fund_data alone
InitSpecEnhance ==
    InitEnhance /\ IdleChecksum /\ IdleFilter /\ IdleBest /\ IdlePlanner /\ IdleReader /\ IdlePipeline /\ IdleRate
NextEnhance == EnhanceFund \/ EnhanceExit \/ EnhanceReturn
SpecEnhance == InitSpecEnhance /\ [][NextEnhance]_vars

\* the three scripts in a row
InitSpecPipeline ==
    InitPipeline /\ IdleMerge /\ IdleChecksum /\ IdleBest /\ IdlePlanner /\ IdleEnhance /\ IdleRate
NextPipeline ==
    \/ MatchHeader \/ SkipRow \/ YieldFundInfo \/ Exhausted
    \/ FilterSheetRecord
    \/ StartCallOpenFigi
    \/ Plan \/ StageEmpty \/ CallOpenFigiOk \/ CallOpenFigiFails \/ StageReturn \/ WriteOutput
    \/ StartGenerateWikitext
    \/ EnhanceFund \/ EnhanceExit \/ EnhanceReturn
SpecPipeline == InitSpecPipeline /\ [][NextPipeline]_vars

\* the rate limiter of one call of call_openfigi_stage
InitSpecRate ==
    InitRate /\ IdleChecksum /\ IdleFilter /\ IdleBest /\ IdleReader /\ IdleEnhance /\ IdlePipeline
NextRate == RateLimitYield \/ CallOpenFigiReturns \/ RateLimitExhausted
SpecRate == InitSpecRate /\ [][NextRate]_vars

(***************************************************************************)
(* Properties                                                              *)
(***************************************************************************)
\* the value of a character: the digit itself, alphabet position + 9 for a letter
CharValue(c) == (CHOOSE i \in 1..36 : (DigitChars \o UpperChars)[i] = c) - 1

RECURSIVE DigitSum(_)
DigitSum(n) == IF n < 10 THEN n ELSE (n % 10) + DigitSum(n \div 10)

\* the sum S of the CUSIP rule over the 0-indexed positions of q
CusipSum(q) ==
    SumSeq([i \in 1..Len(q) |->
        IF (i - 1) % 2 = 0 THEN DigitSum(CharValue(q[i])) ELSE DigitSum(2 * CharValue(q[i]))])

\* C1: on every 8-character string over 0-9A-Z cusip_check_digit returns the
\* one digit (10 - (S mod 10)) mod 10, S being the sum of the digit sums of v
\* at even and of 2v at odd 0-indexed positions; 03783310 gives 0, the ninth
\* character of the CUSIP 037833100.
C1_CusipCheckDigit ==
    op = "cusip_check_digit" =>
        /\ out = <<DigitChars[((10 - (CusipSum(s) % 10)) % 10) + 1]>>
        /\ s = AAPL_CUSIP8 => out = <<"0">>

C1_Witness ==
    /\ op = "cusip_check_digit"
    /\ IsUpper(s[2]) /\ IsUpper(s[3])
    /\ out # <<"0">>

\* the decimal digits of q with every letter replaced by its two-digit code
DigitsOf(q) ==
    Flatten([i \in 1..Len(q) |->
        IF IsUpper(q[i]) THEN <<CharValue(q[i]) \div 10, CharValue(q[i]) % 10>>
        ELSE <<CharValue(q[i])>>])

\* the Luhn check digit of the digits d: counted from the rightmost digit, the
\* first, third, ... are doubled
LuhnCheckDigit(d) ==
    LET n == Len(d)
        total == SumSeq([i \in 1..n |->
                    IF (n - i) % 2 = 0 THEN DigitSum(2 * d[i]) ELSE d[i]])
    IN  (10 - (total % 10)) % 10

\* C2: on 'US' + nine characters over 0-9A-Z isin_check_digit returns the Luhn
\* check digit of the expanded digit string, and make_isin_from_cusip returns
\* 'US' + the CUSIP + that digit; US037833100 gives 5 and 037833100 gives
\* US0378331005.
C2_IsinCheckDigit ==
    /\ op = "isin_check_digit" =>
        /\ out = <<DigitChars[LuhnCheckDigit(DigitsOf(s)) + 1]>>
        /\ s = US \o AAPL_CUSIP => out = <<"5">>
    /\ op = "make_isin_from_cusip" =>
        /\ out = US \o s \o <<DigitChars[LuhnCheckDigit(DigitsOf(US \o s)) + 1]>>
        /\ s = AAPL_CUSIP => out = AAPL_ISIN

C2_Witness ==
    /\ op = "isin_check_digit"
    /\ IsUpper(s[4]) /\ IsDigit(s[5])
    /\ out # <<"0">>

\* the record of the last iteration after the errata were merged into it
Merged == ApplyErrata(row, errata)
\* the cleaned-up text of an identifier cell
Cleaned(x) == REGEXP_NOT_ALNUM_sub(upper(strip(x)))

\* C3: every record the filter yields has an isin or a cusip; its isin, if
\* any, has 12 characters, begins with US and ends in isin_check_digit of the
\* first 11; its cusip, if any, has 9 characters and ends in cusip_check_digit
\* of the first 8.  (Null is read as Python reads it in `if not fund.isin and
\* not fund.cusip`: None or the empty string.)
C3_YieldedIdentifiersValid ==
    yielded =>
        /\ Truthy(fund.isin) \/ Truthy(fund.cusip)
        /\ Truthy(fund.isin) =>
            /\ Len(fund.isin) = 12
            /\ startswith(fund.isin, US)
            /\ SubSeq(fund.isin, 12, 12) = isin_check_digit(SubSeq(fund.isin, 1, 11))
        /\ Truthy(fund.cusip) =>
            /\ Len(fund.cusip) = 9
            /\ SubSeq(fund.cusip, 9, 9) = cusip_check_digit(SubSeq(fund.cusip, 1, 8))

C3_Witness ==
    /\ yielded
    /\ Truthy(fund.isin) /\ Truthy(fund.cusip)
    /\ fund.cusip # Merged.cusip /\ fund.isin # Merged.isin

\* C4: of the cleaned-up CUSIP, 8 characters become the same 8 followed by
\* their check digit; a length other than 8 and 9 leaves no cusip; 9
\* characters are kept when the ninth is the check digit of the first 8 and
\* leave no cusip otherwise.
C4_CusipRepair ==
    (rows_read > 0 /\ Merged.cusip # None) =>
        LET c == Cleaned(Merged.cusip)
        IN  /\ Len(c) = 8 =>
                /\ Len(fund.cusip) = 9
                /\ SubSeq(fund.cusip, 1, 8) = c
                /\ SubSeq(fund.cusip, 9, 9) = cusip_check_digit(c)
            /\ Len(c) \notin {8, 9} => ~Truthy(fund.cusip)
            /\ Len(c) = 9 =>
                IF SubSeq(c, 9, 9) = cusip_check_digit(SubSeq(c, 1, 8))
                THEN fund.cusip = c
                ELSE fund.cusip = None

C4_Witness ==
    /\ rows_read > 0
    /\ errata = <<>>
    /\ row.cusip = <<" ", "3", "8", "2", "5", "9", "p", "-", "5", "0">>
    /\ fund.cusip = GOOG_CUSIP

\* C5: a record whose ISIN, after the errata merge and the clean-up, is not
\* empty and does not begin with US is not yielded, whatever its other fields.
C5_ForeignIsinDropped ==
    (rows_read > 0 /\ Merged.isin # None) =>
        ((Cleaned(Merged.isin) # <<>> /\ ~startswith(Cleaned(Merged.isin), US)) => ~yielded)

C5_Witness ==
    /\ rows_read > 0
    /\ errata = <<>>
    /\ row.isin = GB_ISIN
    /\ fund.cusip = AAPL_CUSIP
    /\ ~Truthy(row.to_date)
    /\ ~yielded

\* C6 as stated: a record whose to_date is populated after the errata merge is
\* not yielded, and no yielded record has a populated to_date.
C6_PopulatedToDateDropped ==
    rows_read > 0 =>
        /\ Truthy(Merged.to_date) => ~yielded
        /\ yielded => ~Truthy(fund.to_date)

\* C6 amended: a record whose to_date after the errata merge, stripped, begins
\* with a DD/MM/YYYY date is not yielded, and no yielded record has a
\* populated to_date.
C6_DatedToDateDropped ==
    rows_read > 0 =>
        /\ (Truthy(Merged.to_date) /\ REGEXP_DATE_DDMMYYYY_match(strip(Merged.to_date)))
                => ~yielded
        /\ yielded => ~Truthy(fund.to_date)

C6_Witness ==
    /\ rows_read > 0
    /\ row.to_date = <<" ", "3", "1", "/", "1", "2", "/", "2", "0", "1", "9", " ">>
    /\ fund.isin = AAPL_ISIN
    /\ fund.to_date = row.to_date
    /\ ~yielded

\* the places of plan_log that hold the key k
Yields(log, k) == {i \in DOMAIN log : log[i].key = k}

\* C7 as stated: over the four passes of a run no key is yielded twice.
C7_NoKeyYieldedTwice ==
    \A i, j \in DOMAIN plan_log : i # j => plan_log[i].key # plan_log[j].key

\* C7 amended: a pass yields no key twice, and it yields a key that an earlier
\* pass yielded only if that key was yielded once before, through the other
\* endpoint, and the cache entry the earlier query left has a blank ticker.
C7_KeyYieldedAgainOnlyUnresolved ==
    [][\A i \in DOMAIN plan_log' : i > Len(plan_log) =>
        LET k == plan_log'[i].key
            earlier == Yields(plan_log, k)
        IN  /\ Yields(plan_log', k) \ DOMAIN plan_log = {i}
            /\ earlier # {} =>
                /\ Cardinality(earlier) = 1
                /\ \A j \in earlier : IsinStage(plan_log[j].stage) # IsinStage(plan_log'[i].stage)
                /\ k \in DOMAIN cache
                /\ ~Truthy(cache[k].ticker)]_vars

C7_Witness ==
    /\ pc = "done"
    /\ \E f \in Range(funds) : Truthy(f.isin) /\ Truthy(f.cusip) /\ Slice2to11(f.isin) = f.cusip
    /\ \E i, j \in DOMAIN plan_log : i < j /\ plan_log[i].key = plan_log[j].key

\* C8 as stated: the cache changes only by gaining entries for new keys.
C8_EntriesNeverOverwritten ==
    [][\A k \in DOMAIN cache : k \in DOMAIN cache' /\ cache'[k] = cache[k]]_vars

\* C8 amended: no entry is removed; an entry loaded from the persisted cache
\* and an entry that holds a ticker are never overwritten; only an entry that a
\* pass of this run wrote with a blank ticker is replaced by a later pass.
C8_OnlyUnresolvedEntriesOverwritten ==
    [][\A k \in DOMAIN cache :
        /\ k \in DOMAIN cache'
        /\ cache'[k] # cache[k] => (~Truthy(cache[k].ticker) /\ k \notin DOMAIN cache0)]_vars

C8_Witness ==
    /\ pc = "done"
    /\ \E k \in DOMAIN cache0 : ~Truthy(cache0[k].ticker) /\ cache[k] = cache0[k]
    /\ \E k \in Keys : writes[k] >= 2

\* the identifiers of the jobs posted so far, in order
PostedIds == LET jobs == Flatten(calls) IN [i \in 1..Len(jobs) |-> jobs[i].idValue]
\* call_openfigi_stage has returned
Returned == pc \in {"plan", "done"}

\* C9: the batches are consecutive pieces of the identifiers in input order;
\* each has between 1 and N jobs and all but the last have N; when no call
\* fails ceil(k/N) batches are posted and together they are the input; 5
\* identifiers with N = 2 are posted as 2, 2, 1; for no identifiers nothing is
\* posted and an empty dict is returned.
C9_Batches ==
    LET k == Len(ids_to_query)
        N == jobs_per_call
    IN  /\ PostedIds = SubSeq(ids_to_query, 1, Len(PostedIds))
        /\ \A i \in DOMAIN calls :
            /\ Len(calls[i]) >= 1 /\ Len(calls[i]) <= N
            /\ i < Len(calls) => Len(calls[i]) = N
            /\ Len(calls[i]) < N => i = (k + N - 1) \div N
        /\ Returned =>
            /\ PostedIds = ids_to_query
            /\ Len(calls) = (k + N - 1) \div N
            /\ (k = 5 /\ N = 2) => [i \in DOMAIN calls |-> Len(calls[i])] = <<2, 2, 1>>
        /\ k = 0 => calls = <<>> /\ (Returned => stage_result = <<>>)

C9_Witness ==
    /\ Returned
    /\ Len(ids_to_query) = 5
    /\ jobs_per_call = 2
    /\ Len(calls) = 3

\* the candidates of a response and their exchange codes
DataOf(response) == IF "data" \in DOMAIN response THEN response.data ELSE <<>>
CodesOf(response) == [i \in DOMAIN DataOf(response) |-> Get(DataOf(response)[i], "exchCode")]

\* the first candidate whose exchange code is in codes, None if there is none
FirstWith(data, codes) ==
    LET hits == {i \in DOMAIN data : Get(data[i], "exchCode") \in codes}
    IN  IF hits = {} THEN NoResult ELSE data[CHOOSE i \in hits : \A j \in hits : i <= j]

\* C10: get_best_openfigi_result returns the first candidate on exchange US if
\* there is one, otherwise the first on UA, UN, UR or UP, otherwise None;
\* UN, US, UA gives the second candidate, UA, UN the first, no candidates None.
C10_BestResult ==
    best_pc = "returned" =>
        LET data == DataOf(job_response)
        IN  /\ best_result =
                IF FirstWith(data, {US}) # NoResult THEN FirstWith(data, {US})
                ELSE FirstWith(data, {<<"U", "A">>, <<"U", "N">>, <<"U", "R">>, <<"U", "P">>})
            /\ CodesOf(job_response) = <<<<"U", "N">>, US, <<"U", "A">>>> => best_result = data[2]
            /\ CodesOf(job_response) = <<<<"U", "A">>, <<"U", "N">>>> => best_result = data[1]
            /\ data = <<>> => best_result = NoResult

C10_Witness ==
    /\ best_pc = "returned"
    /\ CodesOf(job_response) = <<<<"U", "N">>, US, <<"U", "A">>>>
    /\ best_result = Candidate(2, US)

\* the cache a later invocation with --cache would load from the file
Persisted == StartCache(output_file, TRUE)

\* C11: when a call fails after earlier batches or passes succeeded, the
\* identifiers resolved before the failure are in the cache file (with what
\* the file held before the run).
C11_ResolvedWorkPersists ==
    pc = "failed" =>
        \A k \in DOMAIN cache :
            Truthy(cache[k].ticker) => (k \in DOMAIN Persisted /\ Truthy(Persisted[k].ticker))

\* C12: a response with a status other than 200 is fatal: once one is
\* received nothing more happens, no batch is posted again or next, no later
\* pass is planned, and the output file is not written.
C12_FailureIsFatal ==
    [][\A i \in DOMAIN status_codes : status_codes[i] = 200]_vars

C12_Witness ==
    /\ pc = "failed"
    /\ stage = 2
    /\ Len(ids_to_query) = 2 /\ jobs_per_call = 1 /\ Len(calls) = 1
    /\ Len(status_codes) >= 2
    /\ output_file = NoFile

\* C13: an invocation with --cache on the file a completed invocation wrote,
\* over the same candidates, posts no call, and the cache it returns is
\* written as the same file.
C13_RerunQuiescent ==
    run = 2 =>
        /\ ids_to_query = <<>> /\ calls = <<>> /\ status_codes = <<>>
        /\ pc \in {"done", "written"} =>
                write_tickerinfo_csv(SortedByCusip(cache)) = output_file.rows

C13_Witness ==
    /\ run = 2
    /\ pc = "written"
    /\ \E k \in DOMAIN cache : Truthy(cache[k].ticker) /\ cache[k].ticker # <<"O", "L", "D">>
    /\ \E k \in DOMAIN cache : ~Truthy(cache[k].ticker) /\ ~Truthy(cache[k].exchange)

\* C14: with need_all_columns, once the header row is found and one of family,
\* fund_name, isin, cusip, from_date, to_date has no column, read_fundinfo_csv
\* never ends normally and yields no record, whatever rows follow the header
C14_MissingColumnFatal ==
    (need_all_columns /\ columns.ref_column # NoColumn /\ MissingDataColumn(columns)) =>
        (reader_pc # "exhausted" /\ fundinfos = <<>>)

MergedFields == {"family", "fund_name", "isin", "cusip", "from_date", "to_date"}

\* the errata records read so far that name the reference
ErrataOf(ref) ==
    LET read == SubSeq(ErrataInOrder, 1, errata_read)
    IN  Flatten([i \in DOMAIN read |-> IF read[i].share_class_ref = ref THEN <<read[i]>> ELSE <<>>])

\* the last non-blank value of a field in a sequence of records, or else the
\* value given
LastNonBlank(recs, f, else) ==
    LET ix == {i \in DOMAIN recs : Truthy(recs[i][f])}
    IN  IF ix = {} THEN else ELSE recs[CHOOSE i \in ix : \A j \in ix : j <= i][f]

\* C15: every field of an erratum holds the last non-blank value the errata
\* sources gave for its reference (a later record's non-blank value wins, a
\* blank one changes nothing); the record merged with its erratum keeps its
\* share_class_ref, takes each of the six fields from the erratum where that
\* is non-blank and keeps its own value where the erratum's is blank
C15_NonBlankWins ==
    /\ \A ref \in DOMAIN errata :
        /\ errata[ref].share_class_ref = ref
        /\ ErrataOf(ref) # <<>>
        /\ \A f \in MergedFields :
                errata[ref][f] = LastNonBlank(ErrataOf(ref), f, ErrataOf(ref)[1][f])
    /\ rows_read > 0 =>
        /\ merged.share_class_ref = row.share_class_ref
        /\ \A f \in MergedFields :
            /\ merged[f] = LastNonBlank(ErrataOf(row.share_class_ref), f, row[f])
            /\ Truthy(row[f]) => Truthy(merged[f])
            /\ row.share_class_ref \in DOMAIN errata =>
                    merged[f] = IF Truthy(errata[row.share_class_ref][f])
                                THEN errata[row.share_class_ref][f] ELSE row[f]

\* two sources of one reference name different families, both leave from_date
\* blank, and the record merged had a from_date of its own
C15_Witness ==
    /\ rows_read > 0
    /\ Len(errata_filelikes) = 2 /\ Len(errata_filelikes[1]) = 1 /\ Len(errata_filelikes[2]) = 1
    /\ errata_filelikes[1][1].share_class_ref = row.share_class_ref
    /\ errata_filelikes[2][1].share_class_ref = row.share_class_ref
    /\ Truthy(errata_filelikes[1][1].family) /\ Truthy(errata_filelikes[2][1].family)
    /\ errata_filelikes[1][1].family # errata_filelikes[2][1].family
    /\ merged.family = errata_filelikes[2][1].family
    /\ ~Truthy(errata[row.share_class_ref].from_date) /\ Truthy(row.from_date)
    /\ merged.from_date = row.from_date

\* the candidate a record of enhance_fund_data was made from
Input(rec) == fund_info[CHOOSE i \in DOMAIN fund_info : fund_info[i].share_class_ref = rec.share_class_ref]

HasTicker(k) == k \in DOMAIN cusip_to_tickerinfo /\ Truthy(cusip_to_tickerinfo[k].ticker)

\* the resolved key of a candidate: isin[2:11] when that key has a ticker in
\* the cache, otherwise the raw cusip
ResolvedKey(f) ==
    IF Truthy(f.isin) /\ HasTicker(Slice2to11(f.isin)) THEN Slice2to11(f.isin) ELSE f.cusip

\* C16: every record of the result has cusip equal to the resolved key of its
\* candidate, isin equal to make_isin_from_cusip(cusip), and the non-blank
\* ticker the cache holds under that key
C16_IdentifiersConsistent ==
    \A i \in DOMAIN enhanced :
        /\ enhanced[i].cusip = ResolvedKey(Input(enhanced[i]))
        /\ enhanced[i].isin = make_isin_from_cusip(enhanced[i].cusip)
        /\ Slice2to11(enhanced[i].isin) = enhanced[i].cusip
        /\ HasTicker(enhanced[i].cusip)
        /\ enhanced[i].ticker = cusip_to_tickerinfo[enhanced[i].cusip].ticker

\* a record is returned that was resolved through its raw CUSIP, and whose
\* ISIN, which named another security, has been replaced
C16_Witness ==
    /\ enhance_pc = "returned"
    /\ \E i \in DOMAIN enhanced :
        /\ Truthy(Input(enhanced[i]).isin)
        /\ enhanced[i].cusip = Input(enhanced[i]).cusip
        /\ enhanced[i].isin # Input(enhanced[i]).isin
        /\ Slice2to11(Input(enhanced[i]).isin) \in DOMAIN cusip_to_tickerinfo

\* the candidates handled so far that were given a ticker: resolved, and the
\* first of their key
Consumed(i) ==
    /\ i <= funds_enhanced
    /\ HasTicker(ResolvedKey(fund_info[i]))
    /\ \A j \in 1..(i - 1) :
            HasTicker(ResolvedKey(fund_info[j])) => ResolvedKey(fund_info[j]) # ResolvedKey(fund_info[i])

Refs(fs) == {fs[i].share_class_ref : i \in DOMAIN fs}

\* C17: a fund given a ticker whose CUSIP is not in the category table is in
\* the list of uncategorized funds and not in the result; one whose category
\* is blank is in neither; one with a category is in the result; the run
\* exits exactly when the loop has ended with uncategorized funds and
\* no_die_on_uncategorized_funds is not set, and otherwise returns
C17_CategoryHandling ==
    /\ \A i \in DOMAIN fund_info :
        /\ fund_info[i].share_class_ref \in Refs(uncategorized_funds) <=>
                (Consumed(i) /\ ResolvedKey(fund_info[i]) \notin DOMAIN fund_categories)
        /\ fund_info[i].share_class_ref \in Refs(enhanced) <=>
                (/\ Consumed(i)
                 /\ ResolvedKey(fund_info[i]) \in DOMAIN fund_categories
                 /\ Truthy(fund_categories[ResolvedKey(fund_info[i])]))
    /\ \A i \in DOMAIN enhanced :
            enhanced[i].category = fund_categories[enhanced[i].cusip]
    /\ enhance_pc = "exit" =>
            (/\ funds_enhanced = Len(fund_info)
             /\ uncategorized_funds # <<>> /\ ~no_die_on_uncategorized_funds)
    /\ enhance_pc = "returned" =>
            (/\ funds_enhanced = Len(fund_info)
             /\ (uncategorized_funds = <<>> \/ no_die_on_uncategorized_funds))

\* the run returns a categorized fund although another fund is uncategorized,
\* the caller having suppressed the exit
C17_Witness ==
    /\ enhance_pc = "returned"
    /\ no_die_on_uncategorized_funds
    /\ uncategorized_funds # <<>>
    /\ enhanced # <<>>

\* the longest of the names in hits, as it stands in the list
LongestAlternative(alts, hits) ==
    alts[CHOOSE i \in hits : \A j \in hits : Len(alts[j]) <= Len(alts[i])]

\* the names of the list that are a case-insensitive prefix of a family
PrefixNames(family) ==
    {i \in DOMAIN fund_families :
        /\ Len(family) >= Len(fund_families[i])
        /\ EqualIgnoringCase(SubSeq(family, 1, Len(fund_families[i])), fund_families[i])}

\* C18: the family of a record is the longest name of the list that is a
\* case-insensitive prefix of the family of its candidate, as written in the
\* list, whatever the order of the list
C18_LongestCanonicalFamily ==
    \A i \in DOMAIN enhanced :
        PrefixNames(Input(enhanced[i]).family) # {} =>
            enhanced[i].family =
                LongestAlternative(fund_families, PrefixNames(Input(enhanced[i]).family))

\* x begins with the family in any letter case, followed by whitespace
BeginsWithFamily(x, family) ==
    /\ Len(x) > Len(family)
    /\ EqualIgnoringCase(SubSeq(x, 1, Len(family)), family)
    /\ x[Len(family) + 1] \in Whitespace

\* C19: a fund_name that begins with the family in any letter case followed
\* by whitespace no longer begins with it after line 117
C19_FamilyStrippedIgnoringCase ==
    \A i \in DOMAIN names_cleaned :
        BeginsWithFamily(names_cleaned[i].before, names_cleaned[i].family) =>
            ~BeginsWithFamily(names_cleaned[i].after, names_cleaned[i].family)


\* the inputs of the end-to-end example: 037833100 resolved to ACME on the
\* US exchange, a families file naming Acme Group, a categories file mapping
\* 037833100 to Large Cap, and generate-wikitext.py started
ExampleInputs ==
    /\ enhance_pc # "idle"
    /\ AAPL_CUSIP \in DOMAIN cusip_to_tickerinfo
    /\ cusip_to_tickerinfo[AAPL_CUSIP].ticker = <<"A", "C", "M", "E">>
    /\ cusip_to_tickerinfo[AAPL_CUSIP].exchange = <<"U", "S">>
    /\ \E i \in DOMAIN fund_families : fund_families[i] = ACME_GROUP
    /\ AAPL_CUSIP \in DOMAIN fund_categories
    /\ fund_categories[AAPL_CUSIP] = LARGE_CAP

\* the five fields the example names, of the only final record
ExampleRecord(fund_name) ==
    /\ Len(enhanced) = 1
    /\ enhanced[1].ticker = <<"A", "C", "M", "E">>
    /\ enhanced[1].family = ACME_GROUP
    /\ enhanced[1].fund_name = fund_name
    /\ enhanced[1].category = LARGE_CAP
    /\ enhanced[1].isin = AAPL_ISIN

DoubledPositions(d) ==
    {i \in 1..Len(d) : (i - 1) % 2 = (IF Len(d) % 2 = 0 THEN 1 ELSE 0)}

\* C21 as stated: isin_check_digit splits the eleven characters by the parity
\* of their position before the letters are expanded and doubles the
\* even-indexed half when both halves are equally long, otherwise the
\* odd-indexed half
C21_SplitBeforeExpansion ==
    op = "isin_check_digit" => out = isin_check_digit_split_before_expansion(s)

\* C21 amended: the split is by the parity of each digit's position in the
\* expanded digit string; the half at odd 0-based indices is doubled when the
\* two halves are equally long, otherwise the half at even 0-based indices,
\* which is the longer one; the doubled half always holds the last digit
C21_SplitAfterExpansion ==
    op = "isin_check_digit" =>
        LET d == DigitsOf(s)
            total == SumSeq([i \in 1..Len(d) |->
                        IF i \in DoubledPositions(d) THEN DigitSum(2 * d[i]) ELSE d[i]])
        IN  /\ out = <<DigitChars[((10 - (total % 10)) % 10) + 1]>>
            /\ Len(d) \in DoubledPositions(d)
            /\ 2 * Cardinality(DoubledPositions(d)) >= Len(d)

C21_Witness ==
    /\ op = "isin_check_digit"
    /\ \E i \in 3..11 : IsUpper(s[i])
    /\ Len(DigitsOf(s)) % 2 = 0
    /\ out # isin_check_digit_split_before_expansion(s)


\* the number written by the two characters of x from position i
TwoDigits(x, i) == IsDigit(x[i]) /\ IsDigit(x[i + 1])
Number2(x, i) == 10 * int(x[i]) + int(x[i + 1])
Year(x) == 100 * Number2(x, 7) + Number2(x, 9)
IsLeapYear(y) == y % 4 = 0 /\ (y % 100 # 0 \/ y % 400 = 0)
DaysInMonth(m, y) ==
    IF m = 2 THEN (IF IsLeapYear(y) THEN 29 ELSE 28)
    ELSE IF m \in {4, 6, 9, 11} THEN 30 ELSE 31

\* x begins with DD/MM/YYYY, DD in 01..31 and MM in 01..12
BeginsWithDate(x) ==
    /\ Len(x) >= 10
    /\ TwoDigits(x, 1) /\ Number2(x, 1) \in 1..31
    /\ x[3] = "/"
    /\ TwoDigits(x, 4) /\ Number2(x, 4) \in 1..12
    /\ x[6] = "/"
    /\ \A i \in 7..10 : IsDigit(x[i])

\* x is DD/MM/YYYY and nothing else, and the month MM of YYYY has a day DD
StrictDate(x) ==
    /\ BeginsWithDate(x)
    /\ Len(x) = 10
    /\ Number2(x, 1) <= DaysInMonth(Number2(x, 4), Year(x))

\* the last iteration reached the validation of the dates (lines 62-65): it
\* was not left for a foreign ISIN or for want of an identifier
DatesValidated ==
    /\ rows_read > 0
    /\ ~(Truthy(fund.isin) /\ ~startswith(fund.isin, US))
    /\ Truthy(fund.isin) \/ Truthy(fund.cusip)

\* C22 as stated: from_date and to_date are each set to null unless they are
\* exactly a DD/MM/YYYY date whose day exists in its month, with nothing after
\* the year, and each is validated on its own
C22_StrictDatesOnly ==
    DatesValidated =>
        /\ fund.from_date =
            IF merged.from_date # None /\ ~StrictDate(strip(merged.from_date))
            THEN None ELSE merged.from_date
        /\ fund.to_date =
            IF merged.to_date # None /\ ~StrictDate(strip(merged.to_date))
            THEN None ELSE merged.to_date

\* C22 amended: from_date and to_date are each set to null unless, stripped
\* of surrounding whitespace, they begin with DD/MM/YYYY (DD 01-31 whatever the
\* month, MM 01-12, four digits); a value that begins so is kept as it was
\* read, whatever follows the year; each is validated on its own
C22_DatesBeginWithPattern ==
    DatesValidated =>
        /\ fund.from_date =
            IF merged.from_date # None /\ ~BeginsWithDate(strip(merged.from_date))
            THEN None ELSE merged.from_date
        /\ fund.to_date =
            IF merged.to_date # None /\ ~BeginsWithDate(strip(merged.to_date))
            THEN None ELSE merged.to_date

C22_Witness ==
    /\ DatesValidated
    /\ merged.from_date = <<"3", "1", "/", "1", "2", "/", "2", "0", "1", "9", "x">>
    /\ fund.from_date = merged.from_date
    /\ merged.to_date = <<"1", "/", "1", "/", "2", "0", "1", "9">>
    /\ fund.to_date = None
    /\ yielded


\* What a pass takes from a fund: src names the field the pass reads, endpoint
\* the identifier type it queries
PassPresent(src, f) == Truthy(IF src = "isin" THEN f.isin ELSE f.cusip)
PassKey(src, f) == IF src = "isin" THEN Slice2to11(f.isin) ELSE f.cusip
PassId(src, endpoint, f) ==
    IF src = "isin"
    THEN (IF endpoint = "ID_ISIN" THEN f.isin ELSE Slice2to11(f.isin))
    ELSE (IF endpoint = "ID_CUSIP" THEN f.cusip ELSE make_isin_from_cusip(f.cusip))

\* the funds a pass queries for: those with the field, whose key the cache c
\* does not resolve, that is not in the dedup set, and that no earlier fund has
PassPicks(src, c, dedup) ==
    {i \in DOMAIN funds :
        /\ PassPresent(src, funds[i])
        /\ NotResolved(c, PassKey(src, funds[i]))
        /\ PassKey(src, funds[i]) \notin dedup
        /\ \A j \in 1..(i - 1) :
            PassPresent(src, funds[j]) => PassKey(src, funds[j]) # PassKey(src, funds[i])}

PassPlan(src, endpoint, c, dedup) ==
    LET picked == SelectSeq([i \in DOMAIN funds |-> i], LAMBDA i : i \in PassPicks(src, c, dedup))
    IN  [n \in DOMAIN picked |-> PassId(src, endpoint, funds[picked[n]])]

\* the passes run in the order 1, 2, 3, 4; pass n reads the field source[n],
\* queries the endpoint endpoint[n], is planned against the cache as the
\* earlier passes left it, and continues the dedup set of pass 1 (n = 1, 3) or
\* of pass 2 (n = 2, 4), leaving the other set alone
PassesFollow(source, endpoint) ==
    /\ stage' = stage \/ (stage' = stage + 1 /\ pc = "stage" /\ pc' = "plan")
    /\ (pc = "plan" /\ pc' = "stage") =>
        /\ ids_to_query' =
             PassPlan(source[stage], endpoint[stage], cache,
                      IF stage \in {1, 3} THEN queried_isin_cusips ELSE queried_cusips)
        /\ \E picks \in {PassPicks(source[stage], cache,
                            IF stage \in {1, 3} THEN queried_isin_cusips ELSE queried_cusips)} :
             \E keys \in {{PassKey(source[stage], funds[i]) : i \in picks}} :
                IF stage \in {1, 3}
                THEN /\ queried_isin_cusips' = queried_isin_cusips \cup keys
                     /\ queried_cusips' = queried_cusips
                ELSE /\ queried_cusips' = queried_cusips \cup keys
                     /\ queried_isin_cusips' = queried_isin_cusips
    /\ pc' \in {"stage", "failed"} =>
        \A b \in DOMAIN calls' : \A n \in DOMAIN calls'[b] :
            calls'[b][n].idType = endpoint[stage']
    /\ (pc = "stage" /\ pc' \in {"plan", "done"}) => cache' = DictUnion(cache, stage_result')

\* C23 as stated: the passes are (1) given ISINs, (2) given CUSIPs, (3) for
\* funds with an isin the ISIN-derived CUSIP through the CUSIP endpoint,
\* continuing the dedup set of pass 1, (4) for funds with a cusip an ISIN
\* synthesized from it through the ISIN endpoint, continuing the set of pass 2
C23_PassesAsStated ==
    [][PassesFollow(<<"isin", "cusip", "isin", "cusip">>,
                    <<"ID_ISIN", "ID_CUSIP", "ID_CUSIP", "ID_ISIN">>)]_vars

\* C23 amended: the passes are (1) given ISINs, (2) given CUSIPs, (3) for
\* funds with a cusip an ISIN synthesized from it through the ISIN endpoint,
\* continuing the dedup set of pass 1, (4) for funds with an isin the
\* ISIN-derived CUSIP through the CUSIP endpoint, continuing the set of pass 2;
\* each is planned against the cache as updated by all earlier passes
C23_PassesInCodeOrder ==
    [][PassesFollow(<<"isin", "cusip", "cusip", "isin">>,
                    <<"ID_ISIN", "ID_CUSIP", "ID_ISIN", "ID_CUSIP">>)]_vars

C23_Witness ==
    /\ stage = 4
    /\ pc = "stage"
    /\ ids_to_query # <<>>
    /\ Len(ids_to_query[1]) = 9
    /\ calls # <<>>
    /\ \E i \in DOMAIN plan_log : plan_log[i].stage = 3
    /\ \E i \in DOMAIN plan_log : plan_log[i].stage = 1


\* C24: every batch after the first is yielded no earlier than 60/(0.95*R)
\* seconds after the batch before it; rate_limit never sleeps before the
\* first batch; it sleeps at most once before a batch and reads the clock
\* once per batch, never once per job
C24_RateLimited ==
    rate_pc # "idle" =>
        /\ \A n \in 2..Len(dispatch_times) :
            (dispatch_times[n] - dispatch_times[n - 1]) * 95 * calls_per_minute >= 60 * 100 * 19
        /\ \A i \in DOMAIN sleeps :
            /\ sleeps[i].before_batch >= 2
            /\ \A j \in DOMAIN sleeps : i # j => sleeps[i].before_batch # sleeps[j].before_batch
        /\ Len(dispatch_times) = Len(calls)
        /\ Len(calls) <= Len(openfigi_jobs_grouped)
        /\ \A b \in DOMAIN calls : calls[b] = openfigi_jobs_grouped[b]

C24_Witness ==
    /\ rate_pc = "exhausted"
    /\ jobs_per_call = 2
    /\ Len(calls) = 3
    /\ Len(calls[1]) = 2
    /\ Len(sleeps) = 1
    /\ sleeps[1].before_batch = 3


\* the rows consumed so far in which some cell matches the share-class-ref
\* pattern
HeaderRows ==
    {i \in 1..rows_consumed : \E k \in DOMAIN filelike[i] : filelike[i][k] \in _REGEXP_SHARE_CLASS_REF}

\* the index of the first cell of r that matches, NoColumn if none does
FirstMatch(r, regexp) ==
    IF \A k \in DOMAIN r : r[k] \notin regexp THEN NoColumn
    ELSE CHOOSE k \in DOMAIN r : r[k] \in regexp /\ \A j \in 1..(k - 1) : r[j] \notin regexp

\* the rows after row h that were consumed and have a share class ref in the
\* column ref, in order; a row at which the generator raised is not one
RowsWithRef(h, ref) ==
    SelectSeq([i \in 1..(rows_consumed - h) |-> filelike[h + i]],
              LAMBDA r : Len(r) >= ref /\ r[ref] \notin {<<>>, EM_DASH, NO_DATA})

\* C25: the first row with a cell matching the share-class-ref pattern is the
\* header: no row up to and including it is yielded, each column is the index
\* of the first cell of that row matching the field's pattern (absent if
\* none), and the columns stay those of that row whatever rows follow
C25_FirstHeaderRowFixesColumns ==
    /\ HeaderRows = {} => (columns.ref_column = NoColumn /\ fundinfos = <<>>)
    /\ HeaderRows # {} =>
        \E h \in HeaderRows :
            /\ \A i \in HeaderRows : h <= i
            /\ columns.ref_column = FirstMatch(filelike[h], _REGEXP_SHARE_CLASS_REF)
            /\ columns.parent_column = FirstMatch(filelike[h], _REGEXP_FAMILY)
            /\ columns.sub_column = FirstMatch(filelike[h], _REGEXP_FUND_NAME)
            /\ columns.isin_column = FirstMatch(filelike[h], _REGEXP_ISIN)
            /\ columns.cusip_column = FirstMatch(filelike[h], _REGEXP_CUSIP)
            /\ columns.from_column = FirstMatch(filelike[h], _REGEXP_FROM_DATE)
            /\ columns.to_column = FirstMatch(filelike[h], _REGEXP_TO_DATE)
            /\ columns.ticker_column = FirstMatch(filelike[h], _REGEXP_TICKER)
            /\ columns.category_column = FirstMatch(filelike[h], _REGEXP_CATEGORY)
            /\ columns.figi_column = FirstMatch(filelike[h], _REGEXP_FIGI)
            /\ reader_pc # "raised" =>
                \E rows \in {RowsWithRef(h, columns.ref_column)} :
                    /\ Len(fundinfos) = Len(rows)
                    /\ \A n \in DOMAIN rows :
                        /\ fundinfos[n].share_class_ref = rows[n][columns.ref_column]
                        /\ columns.isin_column # NoColumn /\ Len(rows[n]) >= columns.isin_column
                            => fundinfos[n].isin = rows[n][columns.isin_column]
            /\ Len(fundinfos) <= rows_consumed - h

C25_Witness ==
    /\ reader_pc = "exhausted"
    /\ rows_consumed = 3
    /\ filelike[1] = TitleRow
    /\ filelike[2] = ShuffledHeader
    /\ filelike[3] = fundinfo_header(FALSE)
    /\ columns.isin_column = 1
    /\ columns.ref_column = 3
    /\ Len(fundinfos) = 1
    /\ fundinfos[1].share_class_ref = _HEADER_FUND_NAME


\* the candidates handled so far whose resolved key has a ticker
Resolved(i) == i <= funds_enhanced /\ HasTicker(ResolvedKey(fund_info[i]))

\* an earlier candidate consumed the resolved key of candidate i
KeyTakenBefore(i) ==
    \E j \in 1..(i - 1) :
        Resolved(j) /\ ResolvedKey(fund_info[j]) = ResolvedKey(fund_info[i])

\* C26: no two records of the result have the same cusip; a candidate whose
\* resolved key an earlier candidate consumed is passed over (it is neither in
\* the result nor among the uncategorized funds), also when the earlier
\* candidate was dropped for a missing or blank category; the keys consumed
\* are those of all resolved candidates
C26_DuplicateGuard ==
    /\ \A i, j \in DOMAIN enhanced : i # j => enhanced[i].cusip # enhanced[j].cusip
    /\ \A i, j \in DOMAIN uncategorized_funds :
            i # j => uncategorized_funds[i].cusip # uncategorized_funds[j].cusip
    /\ \A i \in DOMAIN fund_info :
            (Resolved(i) /\ KeyTakenBefore(i)) =>
                fund_info[i].share_class_ref \notin Refs(enhanced) \cup Refs(uncategorized_funds)
    /\ seen_cusips = {ResolvedKey(fund_info[i]) : i \in {n \in DOMAIN fund_info : Resolved(n)}}

\* the second candidate has the key of the first, which was dropped for a
\* missing category, and is passed over
C26_Witness ==
    /\ funds_enhanced = 2
    /\ Resolved(1) /\ Resolved(2)
    /\ KeyTakenBefore(2)
    /\ fund_info[1].isin # fund_info[2].isin
    /\ ResolvedKey(fund_info[1]) \notin DOMAIN fund_categories
    /\ Len(uncategorized_funds) = 1
    /\ enhanced = <<>>


\* the places of plan_log at which the key k was planned for the ISIN
\* endpoint (isin = TRUE) or for the CUSIP endpoint
PlannedFor(k, isin) ==
    {i \in DOMAIN plan_log : plan_log[i].key = k /\ IsinStage(plan_log[i].stage) = isin}

\* C27: in one run a key is planned at most once for the ISIN endpoint
\* (passes 1 and 3) and at most once for the CUSIP endpoint (passes 2 and 4),
\* so at most twice; the jobs posted in a pass are planned ones of that pass,
\* each posted once, through the endpoint of the pass
C27_AtMostOncePerEndpoint ==
    /\ \A i \in DOMAIN plan_log :
        /\ Cardinality(PlannedFor(plan_log[i].key, TRUE)) <= 1
        /\ Cardinality(PlannedFor(plan_log[i].key, FALSE)) <= 1
        /\ Cardinality(Yields(plan_log, plan_log[i].key)) <= 2
    /\ pc \in {"stage", "failed"} =>
        /\ Len(PostedIds) <= Len(ids_to_query)
        /\ \A n \in DOMAIN PostedIds :
            /\ PostedIds[n] = ids_to_query[n]
            /\ \E i \in DOMAIN plan_log :
                /\ plan_log[i].stage = stage
                /\ plan_log[i].key = id_to_cusip(stage, PostedIds[n])
            /\ \A m \in DOMAIN PostedIds :
                m # n => id_to_cusip(stage, PostedIds[m]) # id_to_cusip(stage, PostedIds[n])
        /\ \A b \in DOMAIN calls : \A n \in DOMAIN calls[b] :
            calls[b][n].idType = (IF IsinStage(stage) THEN "ID_ISIN" ELSE "ID_CUSIP")

\* a key was queried through both endpoints, the second time in a derived pass
C27_Witness ==
    /\ pc = "done"
    /\ \E k \in Keys :
        /\ Cardinality(Yields(plan_log, k)) = 2
        /\ \E i \in PlannedFor(k, TRUE) : plan_log[i].stage = 3
    /\ \E k \in Keys :
        /\ Cardinality(Yields(plan_log, k)) = 2
        /\ \E i \in PlannedFor(k, FALSE) : plan_log[i].stage = 4


\* C28: a key of the cache as loaded at the start of the run is planned by
\* none of the four passes and posted in no call, whether its cached ticker
\* is blank or not; its entry is the loaded one in every state of the run
C28_CachedKeysNeverQueried ==
    /\ \A i \in DOMAIN plan_log : plan_log[i].key \notin DOMAIN cache0
    /\ pc \in {"stage", "failed"} =>
        /\ \A n \in DOMAIN ids_to_query : id_to_cusip(stage, ids_to_query[n]) \notin DOMAIN cache0
        /\ \A n \in DOMAIN PostedIds : id_to_cusip(stage, PostedIds[n]) \notin DOMAIN cache0
    /\ \A k \in DOMAIN cache0 :
        /\ k \in queried_isin_cusips /\ k \in queried_cusips
        /\ writes[k] = 0
        /\ k \in DOMAIN cache /\ cache[k] = cache0[k]

\* a finished run that queried some key, over candidates one of which has its
\* ISIN key and another its CUSIP in the loaded cache with a blank ticker
C28_Witness ==
    /\ pc = "done"
    /\ plan_log # <<>>
    /\ \E f \in Range(funds) :
        /\ Truthy(f.isin)
        /\ Slice2to11(f.isin) \in DOMAIN cache0
        /\ ~Truthy(cache0[Slice2to11(f.isin)].ticker)
    /\ \E f \in Range(funds) :
        /\ Truthy(f.cusip)
        /\ f.cusip \in DOMAIN cache0
        /\ ~Truthy(cache0[f.cusip].ticker)

\* C29: in one run the keys of the cache only grow, and an entry with a
\* non-blank ticker is carried unchanged into every next state
C29_ResolvedEntriesKept ==
    [][/\ DOMAIN cache \subseteq DOMAIN cache'
       /\ \A k \in DOMAIN cache :
            Truthy(cache[k].ticker) => cache'[k].ticker = cache[k].ticker /\ cache'[k] = cache[k]]_vars

\* a finished run whose cache grew and holds a loaded ticker, and in which a
\* blank entry of this run was replaced by a ticker found through the other
\* endpoint
C29_Witness ==
    /\ pc = "done"
    /\ DOMAIN cache # DOMAIN cache0
    /\ \E k \in DOMAIN cache0 : Truthy(cache0[k].ticker) /\ cache[k] = cache0[k]
    /\ \E k \in DOMAIN cache \ DOMAIN cache0 : Truthy(cache[k].ticker) /\ writes[k] = 2


\* the CUSIP-equivalent of an identifier: a 9-character CUSIP itself, of a
\* 12-character ISIN the 9 characters after the country code (x[2:11])
KeyOf(x) == IF Len(x) = 12 THEN SubSeq(x, 3, 11) ELSE x

\* the best match of a result-set: its first US listing, else its first
\* listing on UA, UN, UP or UR, else none
BestMatch(response) ==
    LET data == IF "data" \in DOMAIN response THEN response.data ELSE <<>>
    IN  IF FirstWith(data, {US}) # NoResult THEN FirstWith(data, {US})
        ELSE FirstWith(data, {<<"U", "A">>, <<"U", "N">>, <<"U", "R">>, <<"U", "P">>})

\* C30: every call having returned one result-set per job in request order,
\* call_openfigi_stage returns one entry per identifier, under the
\* identifier's CUSIP-equivalent, made of the best match of the result-set of
\* that identifier's own job, whatever batch the job was in; without an
\* acceptable match the entry is there with a null ticker
C30_OneEntryPerIdentifier ==
    Returned =>
        LET jobs == Flatten(calls)
            sets == Flatten(openfigi_results_grouped)
        IN  /\ Len(jobs) = Len(ids_to_query)
            /\ Len(sets) = Len(ids_to_query)
            /\ DOMAIN stage_result = {KeyOf(ids_to_query[i]) : i \in DOMAIN ids_to_query}
            /\ Cardinality(DOMAIN stage_result) = Len(ids_to_query)
            /\ \A i \in DOMAIN ids_to_query :
                /\ jobs[i].idValue = ids_to_query[i]
                /\ stage_result[KeyOf(ids_to_query[i])].cusip = KeyOf(ids_to_query[i])
                /\ IF BestMatch(sets[i]) = NoResult
                   THEN /\ stage_result[KeyOf(ids_to_query[i])].ticker = None
                        /\ stage_result[KeyOf(ids_to_query[i])].fund_name = None
                        /\ stage_result[KeyOf(ids_to_query[i])].figi = None
                        /\ stage_result[KeyOf(ids_to_query[i])].exchange = None
                   ELSE /\ stage_result[KeyOf(ids_to_query[i])].ticker = BestMatch(sets[i]).ticker
                        /\ stage_result[KeyOf(ids_to_query[i])].fund_name = BestMatch(sets[i]).name
                        /\ stage_result[KeyOf(ids_to_query[i])].figi = BestMatch(sets[i]).figi
                        /\ stage_result[KeyOf(ids_to_query[i])].exchange = BestMatch(sets[i]).exchCode

\* a returned stage of three ISINs posted in two batches: the first job found
\* only a London listing, the second a US listing, the third (in the second
\* batch) a London and an NYSE listing
C30_Witness ==
    /\ Returned
    /\ Len(ids_to_query) = 3 /\ jobs_per_call = 2 /\ Len(calls) = 2
    /\ Len(ids_to_query[1]) = 12
    /\ "data" \in DOMAIN openfigi_results_grouped[1][1]
    /\ stage_result[KeyOf(ids_to_query[1])].ticker = None
    /\ stage_result[KeyOf(ids_to_query[2])].ticker = <<"A", "C", "M", "E">>
    /\ stage_result[KeyOf(ids_to_query[3])].ticker = <<"B", "B", "B">>

====
